---- MODULE Spec2Model ----
(***************************************************************************)
(* A model of wsctrl, a command line client for the Wayland workspace      *)
(* protocols (ext-workspace-unstable-v1 "ExtV0", ext-workspace-v1 "ExtV1", *)
(* cosmic-workspace-unstable-v1 "CosmicV1").                               *)
(*                                                                         *)
(* The engine (WorkspaceState) buffers protocol-neutral WorkspaceEvent     *)
(* values that the per-protocol Dispatch implementations push, and applies *)
(* them (handle_events) when the manager's Done event arrives.  The        *)
(* command layer (WorkspaceManager::exec) runs a roundtrip, resolves the   *)
(* operator's selectors, sends requests, commits and runs a second         *)
(* roundtrip.                                                              *)
(*                                                                         *)
(* src/ holds two generations of the dispatchers: the Dispatch impls of    *)
(* workspace_state.rs, and the ones of workspace_protocol_*.rs.  The first *)
(* are modelled in full; of the second, the handlers that the verified     *)
(* properties name.                                                        *)
(***************************************************************************)
EXTENDS Integers, Sequences, FiniteSets, TLC

VARIABLES
    pc,               \* position of the process (exec / WorkspaceState::new)
    registry,         \* the workspace manager globals the server advertises
    protocol_version, \* the preferred dialect handed to WorkspaceState::new
    workspace_state,  \* the WorkspaceState struct
    args,             \* the parsed command line (Cli.command)
    wire,             \* the requests sent to the server so far, in order
    exit,             \* result of exec: "running", "Ok", "Err"
    last,             \* name of the raw event dispatched last
    txn,              \* the snapshot and the batch the last Done started from
    stdout,           \* what the process has printed, one element per println!
    compositor,       \* the compositor's own workspace graph, where it is modelled
    delivered         \* number of raw events the transport delivered so far

vars == <<pc, registry, protocol_version, workspace_state, args, wire, exit,
          last, txn, delivered, stdout, compositor>>

-----------------------------------------------------------------------------
(* Bounds and value universes                                              *)

\* raw events (other than Done) delivered in one behaviour
MaxEvents == 2

\* Option<T>: None, or Some(x)
None == {}
Some(x) == {x}
Unwrap(opt) == CHOOSE x \in opt : TRUE
Dialects == {"ExtV0", "ExtV1", "CosmicV1"}

GroupIds == {1, 2}
WorkspaceIds == {11, 12}
OutputIds == {21, 22}
Names == {"a", "b"}
CoordValues == {<<0>>, <<0, 1>>}
\* raw state buffers of the ExtV0 and Cosmic workspace handles
StateBuffers == {<<1, 0, 0, 0>>, <<0, 1, 2>>}
\* state arguments of ExtV1 (active = 1, urgent = 2, hidden = 4), as WEnum
StateEnums == {[value |-> 0], [value |-> 1], [unknown |-> 8]}
\* capability arguments of ExtV1, as WEnum
CapEnums == {[value |-> 1], [unknown |-> 64]}
\* capability and tiling state arguments of Cosmic
CapBuffers == {<<1, 0, 0, 0>>}
TilingEnums == {[value |-> 1]}
WorkspaceIdStrings == {"id-a"}

\* OutputData of a wl_output: the output's name, if the server sent one
OutputName(o) ==
    IF o = 21 THEN Some("DP-1") ELSE IF o = 22 THEN Some("DP-2") ELSE None
HasOutputData(o) == o \in OutputIds

\* Result<T, E>
Ok(x) == [ok |-> x]
Err(e) == [err |-> e]
IsOk(r) == "ok" \in DOMAIN r
IsErr(r) == "err" \in DOMAIN r

\* what the process has come to: still running, exec returned Ok(()) or
\* Err(error), or a panic aborted it
Running == [code |-> "running"]
Returned(r) == IF IsOk(r) THEN [code |-> "Ok"] ELSE [code |-> "Err", error |-> r.err]
Aborted(message) == [code |-> "abort", error |-> message]

-----------------------------------------------------------------------------
(* Handles, records and events                                             *)

GroupHandle(variant, id) == [variant |-> variant, id |-> id]
WorkspaceHandle(variant, id) == [variant |-> variant, id |-> id]

\* Iterator::find over the positions in S: the first of them, 0 if none
FirstIndex(S) == IF S = {} THEN 0 ELSE CHOOSE i \in S : \A j \in S : i <= j

\* a write that only an empty field takes
SetField_once(rec, f, v) ==
    IF f \in DOMAIN rec /\ rec[f] # {}
    THEN rec
    ELSE [k \in DOMAIN rec \cup {f} |-> IF k = f THEN v ELSE rec[k]]

SetField(rec, f, v) ==
    [k \in DOMAIN rec \cup {f} |-> IF k = f THEN v ELSE rec[k]]

-----------------------------------------------------------------------------
(* WorkspaceEvent (workspace_state.rs)                                     *)

WorkspaceGroupCreated(g) == [type |-> "WorkspaceGroupCreated", group |-> g]
WorkspaceGroupRemoved(g) == [type |-> "WorkspaceGroupRemoved", group |-> g]
WorkspaceGroupCapabilities(caps) ==
    [type |-> "WorkspaceGroupCapabilities", caps |-> caps]
OutputEnter(g, o) == [type |-> "OutputEnter", group |-> g, output |-> o]
OutputLeave(g, o) == [type |-> "OutputLeave", group |-> g, output |-> o]
WorkspaceEnter(w, g) == [type |-> "WorkspaceEnter", workspace |-> w, group |-> g]
WorkspaceLeave(w, g) == [type |-> "WorkspaceLeave", workspace |-> w, group |-> g]
\* g is an Option<GroupHandle>
WorkspaceCreated(g, w) == [type |-> "WorkspaceCreated", group |-> g, workspace |-> w]
WorkspaceRemoved(w) == [type |-> "WorkspaceRemoved", workspace |-> w]
WorkspaceStateEv(w, s) == [type |-> "WorkspaceState", workspace |-> w, state |-> s]
WorkspaceCapabilities(caps) == [type |-> "WorkspaceCapabilities", caps |-> caps]
WorkspaceCoord(w, c) == [type |-> "WorkspaceCoord", workspace |-> w, coordinates |-> c]
WorkspaceName(w, n) == [type |-> "WorkspaceName", workspace |-> w, name |-> n]

\* the variants that only the dispatchers of workspace_protocol_*.rs build
WorkspaceId(w, id) == [type |-> "WorkspaceId", workspace |-> w, id |-> id]
WorkspaceCapabilitiesOf(w, caps) ==
    [type |-> "WorkspaceCapabilitiesOf", workspace |-> w, caps |-> caps]
WorkspaceGroupCapabilitiesOf(g, caps) ==
    [type |-> "WorkspaceGroupCapabilitiesOf", group |-> g, caps |-> caps]
ManagerFinished == [type |-> "ManagerFinished"]

-----------------------------------------------------------------------------
(* WorkspaceState (workspace_state.rs) and the application of events       *)

WorkspaceState_new(manager) ==
    [groups |-> <<>>, workspaces |-> <<>>, manager |-> manager,
     events |-> <<>>, group_cap |-> None, workspace_cap |-> None]

NewGroup(group_handle) == [handle |-> group_handle, output |-> None]

\* a record that never takes the group of the event
NewWorkspace_ungrouped(group_handle, workspace_handle) ==
    [handle |-> workspace_handle, name |-> None, coordinates |-> None,
     state |-> {}, group |-> None]

NewWorkspace(group_handle, workspace_handle) ==
    [handle |-> workspace_handle, name |-> None, coordinates |-> None,
     state |-> {},
     group |-> {g.id : g \in group_handle}]    \* map_or(None, |g| Some(g.id()))

\* groups.iter_mut().find(|group| group.handle == h)
find_group(st, h) ==
    FirstIndex({i \in 1..Len(st.groups) : st.groups[i].handle = h})

\* workspaces.iter_mut().find(|ws| ws.handle == h)
find_workspace(st, h) ==
    FirstIndex({i \in 1..Len(st.workspaces) : st.workspaces[i].handle = h})

\* .map_or_else(|| warn!(..), |group| group.f = v)
UpdateGroup(st, i, f, v) ==
    IF i = 0 THEN st ELSE [st EXCEPT !.groups[i] = SetField(@, f, v)]

\* a lookup whose miss empties the list of workspaces
UpdateWorkspace_or_clear(st, i, f, v) ==
    IF i = 0 THEN [st EXCEPT !.workspaces = <<>>]
    ELSE [st EXCEPT !.workspaces[i] = SetField(@, f, v)]

\* a lookup whose miss writes the first record of the list
UpdateWorkspace_or_first(st, i, f, v) ==
    IF i = 0
    THEN IF st.workspaces = <<>> THEN st
         ELSE [st EXCEPT !.workspaces[1] = SetField(@, f, v)]
    ELSE [st EXCEPT !.workspaces[i] = SetField(@, f, v)]

\* .map_or_else(|| warn!(..), |workspace| workspace.f = v)
UpdateWorkspace(st, i, f, v) ==
    IF i = 0 THEN st ELSE [st EXCEPT !.workspaces[i] = SetField(@, f, v)]

\* a test that any recorded value passes
is_some_and_any(option, v) == option # None

\* option.as_ref().is_some_and(|x| x == &v)
is_some_and_eq(option, v) == option = Some(v)

\* the arms for the variants of workspace_protocol_*.rs: "overwrite the named
\* field"; manager-finished is reserved
handle_event_other(st, event) ==
    CASE event.type = "WorkspaceId" ->
           UpdateWorkspace(st, find_workspace(st, event.workspace), "id", Some(event.id))
      [] event.type = "WorkspaceCapabilitiesOf" ->
           UpdateWorkspace(st, find_workspace(st, event.workspace),
                           "capabilities", event.caps)
      [] event.type = "WorkspaceGroupCapabilitiesOf" ->
           UpdateGroup(st, find_group(st, event.group), "capabilities", event.caps)
      [] OTHER -> st

\* one iteration of the loop of handle_events
handle_event(st, event) ==
    CASE event.type = "WorkspaceGroupCreated" ->
           [st EXCEPT !.groups = Append(@, NewGroup(event.group))]
      [] event.type = "WorkspaceGroupRemoved" ->
           [st EXCEPT !.groups = SelectSeq(@, LAMBDA g : g.handle # event.group)]
      [] event.type = "WorkspaceCreated" ->
           [st EXCEPT !.workspaces =
                Append(@, NewWorkspace(event.group, event.workspace))]
      [] event.type = "WorkspaceRemoved" ->
           [st EXCEPT !.workspaces =
                SelectSeq(@, LAMBDA w : w.handle # event.workspace)]
      [] event.type = "OutputEnter" ->
           UpdateGroup(st, find_group(st, event.group), "output", Some(event.output))
      [] event.type = "OutputLeave" ->
           LET i == find_group(st, event.group)
           IN  IF i # 0 /\ is_some_and_eq(st.groups[i].output, event.output)
               THEN UpdateGroup(st, i, "output", None)
               ELSE st
      [] event.type = "WorkspaceState" ->
           UpdateWorkspace(st, find_workspace(st, event.workspace), "state", event.state)
      [] event.type = "WorkspaceName" ->
           UpdateWorkspace(st, find_workspace(st, event.workspace),
                           "name", Some(event.name))
      [] event.type = "WorkspaceCoord" ->
           UpdateWorkspace(st, find_workspace(st, event.workspace),
                           "coordinates", Some(event.coordinates))
      [] event.type = "WorkspaceGroupCapabilities" ->
           [st EXCEPT !.group_cap = Some(event.caps)]
      [] event.type = "WorkspaceEnter" ->
           UpdateWorkspace(st, find_workspace(st, event.workspace),
                           "group", Some(event.group.id))
      [] event.type = "WorkspaceLeave" ->
           LET i == find_workspace(st, event.workspace)
           IN  IF i # 0 /\ is_some_and_eq(st.workspaces[i].group, event.group.id)
               THEN UpdateWorkspace(st, i, "group", None)
               ELSE st
      [] event.type = "WorkspaceCapabilities" ->
           [st EXCEPT !.workspace_cap = Some(event.caps)]
      [] OTHER -> handle_event_other(st, event)

\* events.into_iter().rev(): the newest event is applied first
RECURSIVE handle_events_rev(_, _)
handle_events_rev(st, events) ==
    IF events = <<>> THEN st
    ELSE handle_events_rev(handle_event(st, events[Len(events)]),
                           SubSeq(events, 1, Len(events) - 1))

\* for event in events.into_iter() { match event { ... } }
RECURSIVE handle_events(_, _)
handle_events(st, events) ==
    IF events = <<>> THEN st
    ELSE handle_events(handle_event(st, Head(events)), Tail(events))

\* events.iter() in place of events.drain(..): the queue keeps its events
iter_events(st) == st

\* the state that events.drain(..) leaves behind
drain_events(st) == [st EXCEPT !.events = <<>>]

\* Event::Done: let events = events.drain(..).collect(); handle_events(events)
Done_event(st) == handle_events(drain_events(st), st.events)

\* WorkspaceState::handle_events() of the dispatchers of
\* workspace_protocol_*.rs: drains the queue in arrival order
WorkspaceState_handle_events(st) == handle_events(drain_events(st), st.events)

\* state.workspace_state_mut().events.push(event)
push(st, event) == [st EXCEPT !.events = Append(@, event)]

\* a handler that panicked (todo!(), unwrap() of None)
Panicked == [panic |-> TRUE]
IsPanic(r) == "panic" \in DOMAIN r

-----------------------------------------------------------------------------
(* The Dispatch implementations of workspace_state.rs.  A raw event is a   *)
(* record with the name of the protocol event and its arguments; a handler *)
(* maps the engine state to the state it leaves, or to Panicked.  An enum  *)
(* argument arrives as WEnum: [value |-> bits] or [unknown |-> word].      *)

IsValue(wenum) == "value" \in DOMAIN wenum
Bit(word, b) == (word \div b) % 2 = 1

\* Vec::get(i).is_some_and(|s| *s == v), with i counted from 0
GetIs(buf, i, v) == i + 1 <= Len(buf) /\ buf[i + 1] = v

ZcosmicWorkspaceManagerV1_event(st, event) ==
    CASE event.name = "WorkspaceGroup" ->
           push(st, WorkspaceGroupCreated(GroupHandle("CosmicV1", event.workspace_group)))
      [] event.name = "Done" -> Done_event(st)
      [] event.name = "Finished" -> st

ZcosmicWorkspaceGroupHandleV1_event(st, handle, event) ==
    CASE event.name = "OutputEnter" ->
           push(st, OutputEnter(GroupHandle("CosmicV1", handle), event.output))
      [] event.name = "OutputLeave" ->
           push(st, OutputLeave(GroupHandle("CosmicV1", handle), event.output))
      [] event.name = "Remove" ->
           push(st, WorkspaceGroupRemoved(GroupHandle("CosmicV1", handle)))
      [] event.name = "Capabilities" -> Panicked        \* todo!()
      [] event.name = "Workspace" ->
           push(st, WorkspaceCreated(Some(GroupHandle("CosmicV1", handle)),
                                     WorkspaceHandle("CosmicV1", event.workspace)))

ZcosmicWorkspaceHandleV1_event(st, handle, event) ==
    CASE event.name = "State" ->
           IF Len(event.state) # 3 THEN st
           ELSE push(st, WorkspaceStateEv(WorkspaceHandle("CosmicV1", handle),
                    (IF event.state[1] = 0 THEN {"Active"} ELSE {})
                    \cup (IF event.state[2] = 1 THEN {"Urgent"} ELSE {})
                    \cup (IF event.state[3] = 2 THEN {"Hidden"} ELSE {})))
      [] event.name = "Name" ->
           push(st, WorkspaceName(WorkspaceHandle("CosmicV1", handle), event.name_arg))
      [] event.name = "Coordinates" ->
           push(st, WorkspaceCoord(WorkspaceHandle("CosmicV1", handle), event.coordinates))
      [] event.name = "Remove" ->
           push(st, WorkspaceRemoved(WorkspaceHandle("CosmicV1", handle)))
      [] event.name = "Capabilities" -> st
      [] event.name = "TilingState" -> st

ExtWorkspaceManagerV1_event(st, event) ==
    CASE event.name = "WorkspaceGroup" ->
           push(st, WorkspaceGroupCreated(GroupHandle("ExtV1", event.workspace_group)))
      [] event.name = "Done" -> Done_event(st)
      [] event.name = "Finished" -> st
      [] event.name = "Workspace" ->
           push(st, WorkspaceCreated(None, WorkspaceHandle("ExtV1", event.workspace)))

\* a callback that applies the event to the state instead of queueing it
ExtWorkspaceGroupHandleV1_event_eager(st, handle, event) ==
    IF event.name = "Removed"
    THEN handle_event(st, WorkspaceGroupRemoved(GroupHandle("ExtV1", handle)))
    ELSE st

ExtWorkspaceGroupHandleV1_event(st, handle, event) ==
    CASE event.name = "OutputEnter" ->
           push(st, OutputEnter(GroupHandle("ExtV1", handle), event.output))
      [] event.name = "OutputLeave" ->
           push(st, OutputLeave(GroupHandle("ExtV1", handle), event.output))
      [] event.name = "Removed" ->
           push(st, WorkspaceGroupRemoved(GroupHandle("ExtV1", handle)))
      [] event.name = "Capabilities" ->
           IF IsValue(event.capabilities)
           THEN push(st, WorkspaceGroupCapabilities(event.capabilities.value))
           ELSE st
      [] event.name = "WorkspaceEnter" ->
           push(st, WorkspaceEnter(WorkspaceHandle("ExtV1", event.workspace),
                                   GroupHandle("ExtV1", handle)))
      [] event.name = "WorkspaceLeave" ->
           push(st, WorkspaceLeave(WorkspaceHandle("ExtV1", event.workspace),
                                   GroupHandle("ExtV1", handle)))

ExtWorkspaceHandleV1_event(st, handle, event) ==
    CASE event.name = "State" ->
           IF IsValue(event.state)
           THEN push(st, WorkspaceStateEv(WorkspaceHandle("ExtV1", handle),
                    (IF Bit(event.state.value, 1) THEN {"Active"} ELSE {})
                    \cup (IF Bit(event.state.value, 2) THEN {"Urgent"} ELSE {})
                    \cup (IF Bit(event.state.value, 4) THEN {"Hidden"} ELSE {})))
           ELSE st
      [] event.name = "Name" ->
           push(st, WorkspaceName(WorkspaceHandle("ExtV1", handle), event.name_arg))
      [] event.name = "Coordinates" ->
           push(st, WorkspaceCoord(WorkspaceHandle("ExtV1", handle), event.coordinates))
      [] event.name = "Removed" ->
           push(st, WorkspaceRemoved(WorkspaceHandle("ExtV1", handle)))
      [] event.name = "Capabilities" ->
           IF IsValue(event.capabilities)
           THEN push(st, WorkspaceCapabilities(event.capabilities.value))
           ELSE st

ZextWorkspaceManagerV1_event(st, event) ==
    CASE event.name = "WorkspaceGroup" ->
           push(st, WorkspaceGroupCreated(GroupHandle("ExtV0", event.workspace_group)))
      [] event.name = "Done" -> Done_event(st)
      [] event.name = "Finished" -> st

ZextWorkspaceGroupHandleV1_event(st, handle, event) ==
    CASE event.name = "OutputEnter" ->
           IF ~HasOutputData(event.output) THEN Panicked    \* unwrap() in info!
           ELSE push(st, OutputEnter(GroupHandle("ExtV0", handle), event.output))
      [] event.name = "OutputLeave" ->
           IF ~HasOutputData(event.output) THEN Panicked    \* unwrap() in info!
           ELSE push(st, OutputLeave(GroupHandle("ExtV0", handle), event.output))
      [] event.name = "Remove" ->
           push(st, WorkspaceGroupRemoved(GroupHandle("ExtV0", handle)))
      [] event.name = "Workspace" ->
           push(st, WorkspaceCreated(Some(GroupHandle("ExtV0", handle)),
                                     WorkspaceHandle("ExtV0", event.workspace)))

ZextWorkspaceHandleV1_event(st, handle, event) ==
    CASE event.name = "State" ->
           push(st, WorkspaceStateEv(WorkspaceHandle("ExtV0", handle),
                    (IF GetIs(event.state, 0, 0) THEN {"Active"} ELSE {})
                    \cup (IF GetIs(event.state, 1, 1) THEN {"Urgent"} ELSE {})
                    \cup (IF GetIs(event.state, 2, 2) THEN {"Hidden"} ELSE {})))
      [] event.name = "Name" ->
           push(st, WorkspaceName(WorkspaceHandle("ExtV0", handle), event.name_arg))
      [] event.name = "Coordinates" ->
           push(st, WorkspaceCoord(WorkspaceHandle("ExtV0", handle), event.coordinates))
      [] event.name = "Remove" ->
           push(st, WorkspaceRemoved(WorkspaceHandle("ExtV0", handle)))

-----------------------------------------------------------------------------
(* The Dispatch implementations of workspace_protocol_ext_v0.rs and        *)
(* workspace_protocol_ext_v1.rs that the properties below name.            *)

\* WorkspaceStates, the bit set these dispatchers hand on
\* (active = 1, hidden = 2, urgent = 4)
WorkspaceStates(bits) ==
    (IF Bit(bits, 1) THEN {"Active"} ELSE {})
    \cup (IF Bit(bits, 2) THEN {"Hidden"} ELSE {})
    \cup (IF Bit(bits, 4) THEN {"Urgent"} ELSE {})

\* WorkspaceCapabilities::from_bits: None if a bit is no capability
\* (activate = 1, deactivate = 2, remove = 4, assign = 8, rename = 16,
\* set-tiling-state = 32)
WorkspaceCapabilities_from_bits(bits) == IF bits < 64 THEN Some(bits) ELSE None

ext_v0_ZextWorkspaceManagerV1_event(st, event) ==
    CASE event.name = "WorkspaceGroup" ->
           push(st, WorkspaceGroupCreated(GroupHandle("ExtV0", event.workspace_group)))
      [] event.name = "Done" -> WorkspaceState_handle_events(st)
      [] event.name = "Finished" -> push(st, ManagerFinished)

ext_v1_ExtWorkspaceHandleV1_event(st, handle, event) ==
    CASE event.name = "Id" ->
           push(st, WorkspaceId(WorkspaceHandle("ExtV1", handle), event.id))
      [] event.name = "State" ->
           IF IsValue(event.state)
           THEN push(st, WorkspaceStateEv(WorkspaceHandle("ExtV1", handle),
                                          WorkspaceStates(event.state.value)))
           ELSE st
      [] event.name = "Name" ->
           push(st, WorkspaceName(WorkspaceHandle("ExtV1", handle), event.name_arg))
      [] event.name = "Coordinates" ->
           push(st, WorkspaceCoord(WorkspaceHandle("ExtV1", handle), event.coordinates))
      [] event.name = "Removed" ->
           push(st, WorkspaceRemoved(WorkspaceHandle("ExtV1", handle)))
      [] event.name = "Capabilities" ->
           IF IsValue(event.capabilities)
              /\ WorkspaceCapabilities_from_bits(event.capabilities.value) # None
           THEN push(st, WorkspaceCapabilitiesOf(
                             WorkspaceHandle("ExtV1", handle),
                             Unwrap(WorkspaceCapabilities_from_bits(event.capabilities.value))))
           ELSE st

-----------------------------------------------------------------------------
(* The raw events the server may send, per protocol object                 *)

ManagerEvents(dialect) ==
    {[name |-> "WorkspaceGroup", workspace_group |-> g] : g \in GroupIds}
    \cup {[name |-> "Done"], [name |-> "Finished"]}
    \cup (IF dialect = "ExtV1"
          THEN {[name |-> "Workspace", workspace |-> w] : w \in WorkspaceIds}
          ELSE {})

GroupEvents(dialect) ==
    {[name |-> "OutputEnter", output |-> o] : o \in OutputIds}
    \cup {[name |-> "OutputLeave", output |-> o] : o \in OutputIds}
    \cup (IF dialect = "ExtV1"
          THEN {[name |-> "Removed"]}
               \cup {[name |-> "Capabilities", capabilities |-> c] : c \in CapEnums}
               \cup {[name |-> "WorkspaceEnter", workspace |-> w] : w \in WorkspaceIds}
               \cup {[name |-> "WorkspaceLeave", workspace |-> w] : w \in WorkspaceIds}
          ELSE {[name |-> "Remove"]}
               \cup {[name |-> "Workspace", workspace |-> w] : w \in WorkspaceIds})
    \cup (IF dialect = "CosmicV1"
          THEN {[name |-> "Capabilities", capabilities |-> c] : c \in CapBuffers}
          ELSE {})

WorkspaceEvents(dialect) ==
    {[name |-> "Name", name_arg |-> n] : n \in Names}
    \cup {[name |-> "Coordinates", coordinates |-> c] : c \in CoordValues}
    \cup (IF dialect = "ExtV1"
          THEN {[name |-> "Removed"]}
               \cup {[name |-> "State", state |-> s] : s \in StateEnums}
               \cup {[name |-> "Capabilities", capabilities |-> c] : c \in CapEnums}
          ELSE {[name |-> "Remove"]}
               \cup {[name |-> "State", state |-> s] : s \in StateBuffers})
    \cup (IF dialect = "CosmicV1"
          THEN {[name |-> "Capabilities", capabilities |-> c] : c \in CapBuffers}
               \cup {[name |-> "TilingState", tiling_state |-> t] : t \in TilingEnums}
          ELSE {})

\* events of ext-workspace-v1 that only workspace_protocol_ext_v1.rs handles
WorkspaceEventsExtV1 ==
    WorkspaceEvents("ExtV1") \cup {[name |-> "Id", id |-> i] : i \in WorkspaceIdStrings}

\* a raw event on the wire: the object it is sent to and the event
Raw(object, handle, event) == [object |-> object, handle |-> handle, event |-> event]
M(event) == Raw("manager", 0, event)
G(handle, event) == Raw("group", handle, event)
W(handle, event) == Raw("workspace", handle, event)

\* delegate_workspace!: the Dispatch impl of the object's interface
Dispatch(st, raw) ==
    CASE st.manager = "ExtV0" /\ raw.object = "manager" ->
           ZextWorkspaceManagerV1_event(st, raw.event)
      [] st.manager = "ExtV0" /\ raw.object = "group" ->
           ZextWorkspaceGroupHandleV1_event(st, raw.handle, raw.event)
      [] st.manager = "ExtV0" /\ raw.object = "workspace" ->
           ZextWorkspaceHandleV1_event(st, raw.handle, raw.event)
      [] st.manager = "ExtV1" /\ raw.object = "manager" ->
           ExtWorkspaceManagerV1_event(st, raw.event)
      [] st.manager = "ExtV1" /\ raw.object = "group" ->
           ExtWorkspaceGroupHandleV1_event(st, raw.handle, raw.event)
      [] st.manager = "ExtV1" /\ raw.object = "workspace" ->
           ExtWorkspaceHandleV1_event(st, raw.handle, raw.event)
      [] st.manager = "CosmicV1" /\ raw.object = "manager" ->
           ZcosmicWorkspaceManagerV1_event(st, raw.event)
      [] st.manager = "CosmicV1" /\ raw.object = "group" ->
           ZcosmicWorkspaceGroupHandleV1_event(st, raw.handle, raw.event)
      [] st.manager = "CosmicV1" /\ raw.object = "workspace" ->
           ZcosmicWorkspaceHandleV1_event(st, raw.handle, raw.event)

\* EventQueue::roundtrip / blocking_dispatch over the events that are readable
RECURSIVE dispatch_pending(_, _)
dispatch_pending(st, raws) ==
    IF raws = <<>> \/ IsPanic(st) THEN st
    ELSE dispatch_pending(Dispatch(st, Head(raws)), Tail(raws))

-----------------------------------------------------------------------------
(* What the server sends during the first roundtrip                        *)

WorkspaceGroup(g) == M([name |-> "WorkspaceGroup", workspace_group |-> g])
DoneRaw == M([name |-> "Done"])

\* the state argument that makes a workspace active
ActiveState(dialect) == IF dialect = "ExtV1" THEN [value |-> 1] ELSE <<0, 1, 2>>

\* the announcement of workspace w in group g
AnnounceWorkspace(dialect, g, w) ==
    IF dialect = "ExtV1"
    THEN <<M([name |-> "Workspace", workspace |-> w]),
           G(g, [name |-> "WorkspaceEnter", workspace |-> w])>>
    ELSE <<G(g, [name |-> "Workspace", workspace |-> w])>>

\* a server with no workspace group
ServerEmpty(dialect) == <<>>

\* one group on output 21 with the workspace 11, named "a"
ServerOneGroup(dialect) ==
    <<WorkspaceGroup(1), G(1, [name |-> "OutputEnter", output |-> 21])>>
    \o AnnounceWorkspace(dialect, 1, 11)
    \o <<W(11, [name |-> "Name", name_arg |-> "a"]), DoneRaw>>

\* two groups on the outputs 21 and 22, a workspace in each
ServerTwoGroups(dialect) ==
    <<WorkspaceGroup(1), WorkspaceGroup(2),
      G(1, [name |-> "OutputEnter", output |-> 21]),
      G(2, [name |-> "OutputEnter", output |-> 22])>>
    \o AnnounceWorkspace(dialect, 1, 11)
    \o AnnounceWorkspace(dialect, 2, 12)
    \o <<W(11, [name |-> "Name", name_arg |-> "a"]),
         W(12, [name |-> "Name", name_arg |-> "b"]),
         W(12, [name |-> "State", state |-> ActiveState(dialect)]), DoneRaw>>

Servers(dialect) ==
    {ServerEmpty(dialect), ServerOneGroup(dialect), ServerTwoGroups(dialect)}

-----------------------------------------------------------------------------
(* The event loop: Commands::Listen, after the first roundtrip             *)

Snapshot(st) == [groups |-> st.groups, workspaces |-> st.workspaces]

Dispatching == pc = "listen"

\* the transport hands `event` to a handler that leaves r
Handled(event, r) ==
    /\ Dispatching
    /\ event.name # "Done" => delivered < MaxEvents
    /\ IF IsPanic(r)
       THEN pc' = "panicked" /\ UNCHANGED workspace_state
       ELSE pc' = pc /\ workspace_state' = r
    /\ last' = event.name
    /\ txn' = IF event.name = "Done" /\ ~IsPanic(r)
              THEN [before |-> workspace_state, batch |-> workspace_state.events]
              ELSE txn
    /\ delivered' = IF event.name = "Done" THEN delivered ELSE delivered + 1
    /\ UNCHANGED <<registry, protocol_version, args, wire, exit, stdout>>

\* ... while the compositor's graph is as it was
Deliver(event, r) == Handled(event, r) /\ UNCHANGED compositor

Dispatch_ZextWorkspaceManagerV1 ==
    /\ workspace_state.manager = "ExtV0"
    /\ \E event \in ManagerEvents("ExtV0") :
          Deliver(event, ZextWorkspaceManagerV1_event(workspace_state, event))

Dispatch_ZextWorkspaceGroupHandleV1 ==
    /\ workspace_state.manager = "ExtV0"
    /\ \E handle \in GroupIds, event \in GroupEvents("ExtV0") :
          Deliver(event, ZextWorkspaceGroupHandleV1_event(workspace_state, handle, event))

Dispatch_ZextWorkspaceHandleV1 ==
    /\ workspace_state.manager = "ExtV0"
    /\ \E handle \in WorkspaceIds, event \in WorkspaceEvents("ExtV0") :
          Deliver(event, ZextWorkspaceHandleV1_event(workspace_state, handle, event))

Dispatch_ExtWorkspaceManagerV1 ==
    /\ workspace_state.manager = "ExtV1"
    /\ \E event \in ManagerEvents("ExtV1") :
          Deliver(event, ExtWorkspaceManagerV1_event(workspace_state, event))

Dispatch_ExtWorkspaceGroupHandleV1 ==
    /\ workspace_state.manager = "ExtV1"
    /\ \E handle \in GroupIds, event \in GroupEvents("ExtV1") :
          Deliver(event, ExtWorkspaceGroupHandleV1_event(workspace_state, handle, event))

Dispatch_ExtWorkspaceHandleV1 ==
    /\ workspace_state.manager = "ExtV1"
    /\ \E handle \in WorkspaceIds, event \in WorkspaceEvents("ExtV1") :
          Deliver(event, ExtWorkspaceHandleV1_event(workspace_state, handle, event))

Dispatch_ZcosmicWorkspaceManagerV1 ==
    /\ workspace_state.manager = "CosmicV1"
    /\ \E event \in ManagerEvents("CosmicV1") :
          Deliver(event, ZcosmicWorkspaceManagerV1_event(workspace_state, event))

Dispatch_ZcosmicWorkspaceGroupHandleV1 ==
    /\ workspace_state.manager = "CosmicV1"
    /\ \E handle \in GroupIds, event \in GroupEvents("CosmicV1") :
          Deliver(event, ZcosmicWorkspaceGroupHandleV1_event(workspace_state, handle, event))

Dispatch_ZcosmicWorkspaceHandleV1 ==
    /\ workspace_state.manager = "CosmicV1"
    /\ \E handle \in WorkspaceIds, event \in WorkspaceEvents("CosmicV1") :
          Deliver(event, ZcosmicWorkspaceHandleV1_event(workspace_state, handle, event))

Dispatch_ext_v0_ZextWorkspaceManagerV1 ==
    /\ workspace_state.manager = "ExtV0"
    /\ \E event \in ManagerEvents("ExtV0") :
          Deliver(event, ext_v0_ZextWorkspaceManagerV1_event(workspace_state, event))

Dispatch_ext_v1_ExtWorkspaceHandleV1 ==
    /\ workspace_state.manager = "ExtV1"
    /\ \E handle \in WorkspaceIds, event \in WorkspaceEventsExtV1 :
          Deliver(event, ext_v1_ExtWorkspaceHandleV1_event(workspace_state, handle, event))

\* the state when exec enters `loop { blocking_dispatch }`: the manager is
\* bound and the first roundtrip has dispatched what the server announced
Init ==
    /\ pc = "listen"
    /\ registry = {}
    /\ protocol_version = None
    /\ \E dialect \in Dialects : \E server \in Servers(dialect) :
          workspace_state = dispatch_pending(WorkspaceState_new(dialect), server)
    /\ args = [command |-> "Listen"]
    /\ wire = <<>>
    /\ exit = Running
    /\ last = "Done"
    /\ txn = [before |-> workspace_state, batch |-> <<>>]
    /\ delivered = 0
    /\ stdout = <<>>
    /\ compositor = None

Next ==
    \/ Dispatch_ZextWorkspaceManagerV1
    \/ Dispatch_ZextWorkspaceGroupHandleV1
    \/ Dispatch_ZextWorkspaceHandleV1
    \/ Dispatch_ExtWorkspaceManagerV1
    \/ Dispatch_ExtWorkspaceGroupHandleV1
    \/ Dispatch_ExtWorkspaceHandleV1
    \/ Dispatch_ZcosmicWorkspaceManagerV1
    \/ Dispatch_ZcosmicWorkspaceGroupHandleV1
    \/ Dispatch_ZcosmicWorkspaceHandleV1
    \/ Dispatch_ext_v0_ZextWorkspaceManagerV1
    \/ Dispatch_ext_v1_ExtWorkspaceHandleV1

Spec == Init /\ [][Next]_vars

-----------------------------------------------------------------------------
(* Transactions                                                            *)

\* C1: delivering a raw event other than Done leaves the groups and the
\* workspaces as they were; they change only in the step that processes Done.
C1_OnlyDoneChangesSnapshot ==
    [][last' # "Done" =>
          /\ Snapshot(workspace_state') = Snapshot(workspace_state)
          /\ workspace_state'.group_cap = workspace_state.group_cap
          /\ workspace_state'.workspace_cap = workspace_state.workspace_cap]_vars

\* a removal is queued behind a snapshot that still shows the group
C1_Witness ==
    /\ last = "Removed"
    /\ workspace_state.manager = "ExtV1"
    /\ \E i \in 1..Len(workspace_state.events) :
          /\ workspace_state.events[i].type = "WorkspaceGroupRemoved"
          /\ \E j \in 1..Len(workspace_state.groups) :
                workspace_state.groups[j].handle = workspace_state.events[i].group

\* C2: when the processing of Done has finished the pending queue is empty:
\* nothing is carried over and Done queues nothing.
C2_QueueEmptyAfterDone == last = "Done" => workspace_state.events = <<>>

\* a Done that found two events queued
C2_Witness ==
    /\ last = "Done"
    /\ Len(txn.batch) = 2
    /\ workspace_state.events = <<>>

\* the events of the batch up to position i, applied one at a time from the
\* first to the i-th
RECURSIVE AppliedUpTo(_, _, _)
AppliedUpTo(st, batch, i) ==
    IF i = 0 THEN st ELSE handle_event(AppliedUpTo(st, batch, i - 1), batch[i])

HasWorkspace(st, w) ==
    \E i \in 1..Len(st.workspaces) : st.workspaces[i].handle = w

Named(st, w, n) ==
    \E i \in 1..Len(st.workspaces) :
        st.workspaces[i].handle = w /\ st.workspaces[i].name = Some(n)

\* the batch holds WorkspaceCreated(w) at i and type(w) at j
CreatedThen(batch, i, j, type) ==
    /\ i < j
    /\ batch[i].type = "WorkspaceCreated"
    /\ batch[j].type = type
    /\ batch[j].workspace = batch[i].workspace

\* the k-th event of the batch is one of `types` for the workspace w
Touches(batch, k, w, types) ==
    batch[k].type \in types /\ batch[k].workspace = w

\* C3: Done applies the queued events in arrival order: the snapshot after
\* Done is the fold of the per-event mutations over the queue, first event
\* first; created(w) then name(w, n) leaves w named n, created(w) then
\* removed(w) leaves no record of w.
C3_AppliedInArrivalOrder ==
    last = "Done" =>
        /\ Snapshot(workspace_state) =
              Snapshot(AppliedUpTo(txn.before, txn.batch, Len(txn.batch)))
        /\ \A i, j \in 1..Len(txn.batch) :
              /\ (/\ CreatedThen(txn.batch, i, j, "WorkspaceName")
                  /\ \A k \in (i + 1)..Len(txn.batch) :
                        k # j => ~Touches(txn.batch, k, txn.batch[i].workspace,
                                          {"WorkspaceName", "WorkspaceRemoved"}))
                 => Named(workspace_state, txn.batch[i].workspace, txn.batch[j].name)
              /\ (/\ CreatedThen(txn.batch, i, j, "WorkspaceRemoved")
                  /\ \A k \in (j + 1)..Len(txn.batch) :
                        ~Touches(txn.batch, k, txn.batch[i].workspace,
                                 {"WorkspaceCreated"}))
                 => ~HasWorkspace(workspace_state, txn.batch[i].workspace)

\* a batch of created(w), name(w, n) has been applied
C3_Witness ==
    /\ last = "Done"
    /\ Len(txn.batch) = 2
    /\ CreatedThen(txn.batch, 1, 2, "WorkspaceName")
    /\ ~HasWorkspace(txn.before, txn.batch[1].workspace)
    /\ Named(workspace_state, txn.batch[1].workspace, txn.batch[2].name)

HasGroup(st, id) ==
    \E j \in 1..Len(st.groups) : st.groups[j].handle.id = id

\* C4: in every snapshot committed by a Done, a workspace whose group is
\* present references a group of the group sequence.
C4_GroupReferenceResolves ==
    last = "Done" =>
        \A i \in 1..Len(workspace_state.workspaces) :
            \A id \in workspace_state.workspaces[i].group :
                HasGroup(workspace_state, id)

\* a Done has removed a group that still had a workspace
C4_Witness ==
    /\ last = "Done"
    /\ \E k \in 1..Len(txn.batch) :
          /\ txn.batch[k].type = "WorkspaceGroupRemoved"
          /\ \E i \in 1..Len(txn.before.workspaces) :
                txn.before.workspaces[i].group = {txn.batch[k].group.id}

\* C5: in every committed snapshot no group handle and no workspace handle
\* has more than one record.
C5_NoHandleTwice ==
    last = "Done" =>
        /\ \A i, j \in 1..Len(workspace_state.groups) :
              workspace_state.groups[i].handle = workspace_state.groups[j].handle
              => i = j
        /\ \A i, j \in 1..Len(workspace_state.workspaces) :
              workspace_state.workspaces[i].handle = workspace_state.workspaces[j].handle
              => i = j

\* a Done has applied the announcement of a group that was already known
C5_Witness ==
    /\ last = "Done"
    /\ \E k \in 1..Len(txn.batch) :
          /\ txn.batch[k].type = "WorkspaceGroupCreated"
          /\ HasGroup(txn.before, txn.batch[k].group.id)

-----------------------------------------------------------------------------
(* Requests (workspace_state.rs)                                           *)

\* a request written to the connection
Request(name, object, arg) == [request |-> name, object |-> object, arg |-> arg]

Display == [variant |-> "wl_display", id |-> 1]
ManagerHandle(variant) == [variant |-> variant, id |-> 0]

\* EventQueue::roundtrip: wl_display.sync, then dispatch until its callback
Sync == Request("sync", Display, <<>>)

WorkspaceHandle_activate(self) == <<Request("activate", self, <<>>)>>
WorkspaceHandle_deactivate(self) == <<Request("deactivate", self, <<>>)>>
WorkspaceHandle_remove(self) == <<Request("remove", self, <<>>)>>
WorkspaceHandle_destroy(self) == <<Request("destroy", self, <<>>)>>
GroupHandle_create_workspace(self, name) ==
    <<Request("create_workspace", self, <<name>>)>>
WorkspaceState_commit(st) == <<Request("commit", ManagerHandle(st.manager), <<>>)>>

\* assign that takes any group handle for an ExtV1 workspace
WorkspaceHandle_assign_any_group(self, group) ==
    IF self.variant = "ExtV1"
    THEN Ok(<<Request("assign", self, <<group>>)>>)
    ELSE Err("assign request not supported by unstable protocol version")

\* Ok carries the requests that were sent
WorkspaceHandle_assign(self, group) ==
    CASE self.variant = "ExtV0" ->
           Err("assign request not supported by unstable protocol version")
      [] self.variant = "ExtV1" ->
           IF group.variant = "ExtV1"
           THEN Ok(<<Request("assign", self, <<group>>)>>)
           ELSE Err("assign request workspace and group handle version mismatch")
      [] self.variant = "CosmicV1" ->
           Err("assign request not supported by unstable protocol version")

-----------------------------------------------------------------------------
(* WorkspaceState::new                                                     *)

\* the values of --protocol-version
ProtocolVersions == {None, Some("ext_v0"), Some("ext_v1"), Some("cosmic_v1"), Some("v2")}

\* registry_state.bind_one(..): Ok when the global is advertised
bind_one(registry_state, dialect) ==
    IF dialect \in registry_state THEN Ok(dialect) ELSE Err("MissingGlobal")

\* bind_one(..).expect(message)
bind_expect(registry_state, dialect, message) ==
    IF IsOk(bind_one(registry_state, dialect))
    THEN Ok(WorkspaceState_new(dialect))
    ELSE Panicked

\* a construction that tries Cosmic first
WorkspaceState_new_cosmic_first(registry_state, version) ==
    IF IsOk(bind_one(registry_state, "CosmicV1")) THEN Ok(WorkspaceState_new("CosmicV1"))
    ELSE IF IsOk(bind_one(registry_state, "ExtV1")) THEN Ok(WorkspaceState_new("ExtV1"))
    ELSE IF IsOk(bind_one(registry_state, "ExtV0")) THEN Ok(WorkspaceState_new("ExtV0"))
    ELSE Err("unable to bind any workspace management protocol version!")

\* Ok(state), Err(message), or Panicked
WorkspaceState_new_bind(registry_state, version) ==
    IF version # None
    THEN CASE Unwrap(version) = "ext_v0" ->
                bind_expect(registry_state, "ExtV0",
                            "Failed to bind 'ext_workspace_manager_v0'!")
           [] Unwrap(version) = "ext_v1" ->
                bind_expect(registry_state, "ExtV1",
                            "Failed to bind 'ext_workspace_manager_v1'!")
           [] Unwrap(version) = "cosmic_v1" ->
                bind_expect(registry_state, "CosmicV1",
                            "Failed to bind 'zcosmic_workspace_manager_v1'!")
           [] OTHER -> Err("only protocols zext_workspace_unstable_v1, ext_workspace_unstable_v1 and zcosmic_workspace_unstable_v1 supported!")
    ELSE IF IsOk(bind_one(registry_state, "ExtV0")) THEN Ok(WorkspaceState_new("ExtV0"))
    ELSE IF IsOk(bind_one(registry_state, "ExtV1")) THEN Ok(WorkspaceState_new("ExtV1"))
    ELSE IF IsOk(bind_one(registry_state, "CosmicV1")) THEN Ok(WorkspaceState_new("CosmicV1"))
    ELSE Err("unable to bind any workspace management protocol version!")

-----------------------------------------------------------------------------
(* Command line (cli.rs)                                                   *)

NoWorkspaceSelector ==
    [active |-> FALSE, index |-> None, name |-> None, protocol_id |-> None,
     coordinates |-> None]

\* #[group(required = true, multiple = false)]: exactly one option is given
WorkspaceSelectors ==
    {[NoWorkspaceSelector EXCEPT !.active = TRUE]}
    \cup {[NoWorkspaceSelector EXCEPT !.index = Some(i)] : i \in {0, 1, 2}}
    \cup {[NoWorkspaceSelector EXCEPT !.name = Some(n)] : n \in {"a", "zz"}}
    \cup {[NoWorkspaceSelector EXCEPT !.protocol_id = Some(i)] : i \in {11, 13}}
    \cup {[NoWorkspaceSelector EXCEPT !.coordinates = Some(c)] : c \in {<<0>>}}

\* #[group(id = "output", required = false, multiple = false)]
OutputSelectors ==
    {[output_name |-> Some(n), output_protocol_id |-> None] : n \in {"DP-1", "DP-9"}}
    \cup {[output_name |-> None, output_protocol_id |-> Some(i)] : i \in {22}}

\* WorkspaceArgs: --active and --coordinates carry requires = "output"
WorkspaceArgs ==
    {a \in [workspace : WorkspaceSelectors,
            output : {None} \cup {Some(o) : o \in OutputSelectors}] :
        (a.workspace.active \/ a.workspace.coordinates # None) => a.output # None}

MutatingCommands == {"Activate", "Deactivate", "Remove", "Assign", "CreateWorkspace"}

\* argument vectors that clap accepts (list is left out of this specification)
Commandlines ==
    {[command |-> c, args |-> a] : c \in {"Activate", "Deactivate", "Remove"},
                                  a \in WorkspaceArgs}
    \cup {[command |-> "Assign", workspace_args |-> a, target |-> t] :
             a \in WorkspaceArgs, t \in OutputSelectors}
    \cup {[command |-> "CreateWorkspace", workspace_name |-> "x", output |-> o] :
             o \in OutputSelectors}
    \cup {[command |-> "Listen"]}

\* ListArgs: --outputs-only conflicts with the output options
ListArgs ==
    {a \in [output : {None} \cup {Some(o) : o \in OutputSelectors},
            outputs_only : BOOLEAN, json : BOOLEAN] :
        a.outputs_only => a.output = None}

ListCommandlines == {[command |-> "List", args |-> a] : a \in ListArgs}

\* a parser that attaches no requirement to any option
requires_nothing(a) == TRUE

\* requires = "output" on --active and on --coordinates: an option of the
\* group "output" has to be present with them
requires_output(a) ==
    (a.workspace.active \/ a.workspace.coordinates # None) => a.output # None

\* workspace arguments that lack the output their selector requires
WorkspaceArgsWithoutOutput ==
    [workspace : WorkspaceSelectors,
     output : {None} \cup {Some(o) : o \in OutputSelectors}] \ WorkspaceArgs

\* argument vectors as typed: those clap accepts and those it does not
Argvs ==
    Commandlines
    \cup ListCommandlines
    \cup {[command |-> c, args |-> a] : c \in {"Activate", "Deactivate", "Remove"},
                                       a \in WorkspaceArgsWithoutOutput}
    \cup {[command |-> "Assign", workspace_args |-> a, target |-> t] :
             a \in WorkspaceArgsWithoutOutput, t \in OutputSelectors}

\* the WorkspaceArgs of a command line, if its command has them
WorkspaceArgsOf(argv) ==
    IF argv.command \in {"Activate", "Deactivate", "Remove"} THEN Some(argv.args)
    ELSE IF argv.command = "Assign" THEN Some(argv.workspace_args)
    ELSE None

\* Cli::parse(): the derived parser validates the requirements of the
\* options that are present
Cli_parse(argv) ==
    LET a == WorkspaceArgsOf(argv)
    IN  IF a # None /\ ~requires_output(Unwrap(a))
        THEN Err("the following required arguments were not provided")
        ELSE Ok(argv)

\* clap prints the usage error and exits with status 2
Usage == [code |-> "usage"]

-----------------------------------------------------------------------------
(* Selectors (workspace_manager.rs)                                        *)

WorkspaceGroup_get_output_name(group) ==
    IF group.output = None THEN None ELSE OutputName(Unwrap(group.output))

\* a find that hands back the head of the sequence once anything matches
FoundOr_head(seq, i, message) == IF i = 0 THEN Err(message) ELSE Ok(seq[1])

\* .map_or(Err(message), |x| Ok(x)) on the element found at position i
FoundOr(seq, i, message) == IF i = 0 THEN Err(message) ELSE Ok(seq[i])

\* an output lookup that settles for the first group
\* the bits of a u32, scaled down so that words beyond it stay small; usize
\* is wider (a 64-bit target)
U32_BITS == 5
U32_RANGE == 2 ^ U32_BITS

\* `x as u32` for a usize x: the low 32 bits
as_u32(x) == x % U32_RANGE

group_from_output_first(st, output) ==
    IF st.groups # <<>> THEN Ok(st.groups[1])
    ELSE Err("Unable to find output with name")

group_from_output(st, output) ==
    IF output.output_name # None
    THEN FoundOr(st.groups,
                 FirstIndex({i \in 1..Len(st.groups) :
                     WorkspaceGroup_get_output_name(st.groups[i]) = output.output_name}),
                 "Unable to find output with name")
    ELSE IF output.output_protocol_id # None
    THEN FoundOr(st.groups,
                 FirstIndex({i \in 1..Len(st.groups) :
                     st.groups[i].output = Some(as_u32(Unwrap(output.output_protocol_id)))}),
                 "Unable to find output with protocol id")
    ELSE Err("No output/group found for provided selection!")

\* the position of ws in seq sorted by protocol id: the elements below it,
\* and the equal ones that come before it
RankById(seq, i) ==
    Cardinality({j \in 1..Len(seq) :
        \/ seq[j].handle.id < seq[i].handle.id
        \/ seq[j].handle.id = seq[i].handle.id /\ j < i}) + 1

\* no sort: the candidates stay in the order of their announcement
Unsorted(seq) == seq

\* workspaces.sort_unstable_by(|a, b| a.id().protocol_id().cmp(..)); records
\* with equal ids have the same handle
SortedByProtocolId(seq) ==
    [k \in 1..Len(seq) |-> seq[CHOOSE i \in 1..Len(seq) : RankById(seq, i) = k]]

workspace_from_selection(st, selector, output) ==
    LET group == group_from_output(st, Unwrap(output))
        workspaces ==
            IF output # None
            THEN SelectSeq(st.workspaces, LAMBDA ws : ws.group = Some(group.ok.handle.id))
            ELSE st.workspaces
        positions == 1..Len(workspaces)
    IN  IF output # None /\ IsErr(group) THEN group
        ELSE IF selector.active
        THEN FoundOr(workspaces,
                     FirstIndex({i \in positions : "Active" \in workspaces[i].state}),
                     "Unable to find active workspace!")
        ELSE IF selector.index # None
        THEN IF Unwrap(selector.index) < Len(workspaces)
             THEN Ok(SortedByProtocolId(workspaces)[Unwrap(selector.index) + 1])
             ELSE Err("Unable to find workspace with index")
        ELSE IF selector.name # None
        THEN FoundOr(workspaces,
                     FirstIndex({i \in positions : workspaces[i].name = selector.name}),
                     "Unable to find workspace with name")
        ELSE IF selector.protocol_id # None
        THEN FoundOr(workspaces,
                     FirstIndex({i \in positions :
                         workspaces[i].handle.id = as_u32(Unwrap(selector.protocol_id))}),
                     "Unable to find workspace with protocol id")
        ELSE Err("No workspace handle for provided selector found!")

-----------------------------------------------------------------------------
(* WorkspaceManager::exec (workspace_manager.rs).  The connection is taken *)
(* to stay up: connect_to_env and roundtrip return no transport error.     *)

\* the first line println! writes in text mode: the two comment lines
Header == [line |-> "header"]

\* impl Display for WorkspaceGroup
Display_WorkspaceGroup(group) ==
    IF group.output = None
    THEN [handle |-> group.handle.id, output |-> None,
          name |-> Some("no output assigned to group")]
    ELSE [handle |-> group.handle.id, output |-> group.output,
          name |-> IF HasOutputData(Unwrap(group.output))
                   THEN OutputName(Unwrap(group.output)) ELSE None]

\* format_workspace
format_workspace(workspace) ==
    [name |-> workspace.name, state |-> workspace.state,
     coordinates |-> workspace.coordinates, handle |-> workspace.handle.id]

\* the workspace line with the index printed in front of it
WorkspaceLine(idx, workspace) ==
    [line |-> "workspace", idx |-> idx, workspace |-> format_workspace(workspace)]

\* the workspace lines of `workspaces`, numbered from `idx` on
WorkspaceLines(workspaces, idx) ==
    [k \in 1..Len(workspaces) |-> WorkspaceLine(idx + k - 1, workspaces[k])]

\* a filter that also lets the workspaces without group through
WorkspacesOf_or_unassigned(workspaces, id) ==
    SelectSeq(workspaces, LAMBDA ws : ws.group \in {Some(id), None})

\* the workspaces the filter of group `id` lets through
WorkspacesOf(workspaces, id) ==
    SelectSeq(workspaces, LAMBDA ws : ws.group = Some(id))

\* the fold over groups: block after block, workspace_idx running on
RECURSIVE GroupBlocks(_, _, _, _)
GroupBlocks(groups, workspaces, group_idx, workspace_idx) ==
    IF group_idx > Len(groups) THEN <<>>
    ELSE LET group == groups[group_idx]
             mine == WorkspacesOf(workspaces, group.handle.id)
         IN  <<[line |-> "group", idx |-> group_idx - 1,
                 group |-> Display_WorkspaceGroup(group)]>>
             \o WorkspaceLines(mine, workspace_idx)
             \o GroupBlocks(groups, workspaces, group_idx + 1, workspace_idx + Len(mine))

\* the fold over the workspaces without group: each step formats the marker
\* (if acc is empty) and its own workspace, and leaves acc out of the result
RECURSIVE Unassigned(_, _, _)
Unassigned(acc, workspaces, workspace_idx) ==
    IF workspaces = <<>> THEN acc
    ELSE Unassigned((IF acc = <<>> THEN <<[line |-> "unassigned workspaces"]>> ELSE <<>>)
                        \o <<WorkspaceLine(workspace_idx, Head(workspaces))>>,
                    Tail(workspaces), workspace_idx + 1)

\* impl Serialize for WorkspaceState: an object per group that has
\* workspaces, then one for the workspaces without group
Serialize_WorkspaceState(st) ==
    LET object(group) ==
            [output |-> group.output, group_handle |-> Some(group.handle.id),
             workspaces |-> WorkspacesOf(st.workspaces, group.handle.id)]
        with == SelectSeq(st.groups,
                    LAMBDA group : WorkspacesOf(st.workspaces, group.handle.id) # <<>>)
        unassigned_workspaces == SelectSeq(st.workspaces, LAMBDA ws : ws.group = None)
    IN  [k \in 1..Len(with) |-> object(with[k])]
        \o (IF unassigned_workspaces # <<>>
            THEN <<[output |-> None, group_handle |-> None,
                    workspaces |-> unassigned_workspaces]>>
            ELSE <<>>)

\* print_data: sorts the state, narrows it to the output asked for, prints.
\* Yields the state it leaves and what it printed, or the error of the
\* output lookup with the state sorted.
print_data(st, list_args) ==
    LET sorted == [st EXCEPT !.workspaces = SortedByProtocolId(@),
                             !.groups = SortedByProtocolId(@)]
        group == group_from_output(sorted, Unwrap(list_args.output))
        kept == IF list_args.output = None THEN sorted
                ELSE [sorted EXCEPT
                        !.workspaces = WorkspacesOf(@, group.ok.handle.id),
                        !.groups = SelectSeq(@, LAMBDA g : g.handle.id = group.ok.handle.id)]
        out == GroupBlocks(kept.groups, kept.workspaces, 1, 0)
        workspace_idx == Len(SelectSeq(out, LAMBDA l : l.line = "workspace"))
    IN  IF list_args.output # None /\ IsErr(group)
        THEN [err |-> group.err, state |-> sorted]
        ELSE [ok |-> IF list_args.json
                     THEN <<[json |-> Serialize_WorkspaceState(kept)]>>
                     ELSE <<[text |-> <<Header>> \o out
                              \o Unassigned(<<>>,
                                     SelectSeq(kept.workspaces, LAMBDA ws : ws.group = None),
                                     workspace_idx)]>>,
              state |-> kept]

\* what the server sends before the callback of the second roundtrip
Replies == {<<DoneRaw>>, <<W(11, [name |-> "Name", name_arg |-> "b"]), DoneRaw>>}

\* only print_data prints
UnchangedEngineGhosts == UNCHANGED <<last, txn, delivered, stdout, compositor>>

\* exec returns r
Return(r) ==
    /\ pc' = "exited"
    /\ exit' = Returned(r)

\* the command line is parsed before anything else happens
Parse ==
    /\ pc = "parse"
    /\ IF IsOk(Cli_parse(args))
       THEN pc' = "setup" /\ UNCHANGED exit
       ELSE pc' = "exited" /\ exit' = Usage
    /\ UNCHANGED <<registry, protocol_version, workspace_state, args, wire>>
    /\ UnchangedEngineGhosts

\* setup(): WorkspaceState::new(&registry_state, &qh)?
Setup ==
    /\ pc = "setup"
    /\ LET r == WorkspaceState_new_bind(registry, protocol_version)
       IN  CASE IsPanic(r) ->
                  /\ pc' = "panicked"
                  /\ exit' = Aborted("Failed to bind")
                  /\ UNCHANGED workspace_state
             [] IsErr(r) ->
                  /\ pc' = "setup_err"
                  /\ exit' = Returned(r)
                  /\ UNCHANGED workspace_state
             [] IsOk(r) ->
                  /\ pc' = "roundtrip"
                  /\ workspace_state' = r.ok
                  /\ UNCHANGED exit
    /\ UNCHANGED <<registry, protocol_version, args, wire>>
    /\ UnchangedEngineGhosts

\* setup().expect("Failed to setup wayland socket connection!")
SetupExpect ==
    /\ pc = "setup_err"
    /\ pc' = "panicked"
    /\ exit' = Aborted("Failed to setup wayland socket connection!")
    /\ UNCHANGED <<registry, protocol_version, workspace_state, args, wire>>
    /\ UnchangedEngineGhosts

\* events.roundtrip(&mut workspace_manager)?, before the command
Roundtrip ==
    /\ pc = "roundtrip"
    /\ wire' = Append(wire, Sync)
    /\ \E server \in Servers(workspace_state.manager) :
          LET r == dispatch_pending(workspace_state, server)
          IN  IF IsPanic(r)
              THEN /\ pc' = "panicked"
                   /\ exit' = Aborted("panic in an event handler")
                   /\ UNCHANGED workspace_state
              ELSE /\ pc' = "command"
                   /\ workspace_state' = r
                   /\ UNCHANGED exit
    /\ UNCHANGED <<registry, protocol_version, args>>
    /\ UnchangedEngineGhosts

\* the arm has sent `requests`; exec goes on to the last roundtrip
Sent(requests) ==
    /\ wire' = wire \o requests
    /\ pc' = "roundtrip2"
    /\ UNCHANGED exit

\* an arm leaves through `?` with the error of r
Question(r) ==
    /\ Return(r)
    /\ UNCHANGED wire

\* a list that commits and goes on to the last roundtrip
Exec_List_commit ==
    /\ pc = "command"
    /\ args.command = "List"
    /\ wire' = wire \o WorkspaceState_commit(workspace_state)
    /\ pc' = "roundtrip2"
    /\ UNCHANGED <<registry, protocol_version, workspace_state, args, exit>>
    /\ UnchangedEngineGhosts

\* Commands::List(args) => { workspace_manager.print_data(&args)?; return Ok(()) }
Exec_List ==
    /\ pc = "command"
    /\ args.command = "List"
    /\ LET r == print_data(workspace_state, args.args)
       IN  /\ workspace_state' = r.state
           /\ stdout' = IF IsOk(r) THEN stdout \o r.ok ELSE stdout
           /\ Return(IF IsOk(r) THEN Ok(<<>>) ELSE Err(r.err))
    /\ UNCHANGED <<registry, protocol_version, args, wire>>
    /\ UNCHANGED <<last, txn, delivered, compositor>>

Exec_Listen ==
    /\ pc = "command"
    /\ args.command = "Listen"
    /\ pc' = "listen"
    /\ UNCHANGED <<registry, protocol_version, workspace_state, args, wire, exit>>
    /\ UnchangedEngineGhosts

Exec_CreateWorkspace ==
    /\ pc = "command"
    /\ args.command = "CreateWorkspace"
    /\ LET group == group_from_output(workspace_state, args.output)
       IN  IF IsErr(group) THEN Question(group)
           ELSE Sent(GroupHandle_create_workspace(group.ok.handle, args.workspace_name))
    /\ UNCHANGED <<registry, protocol_version, workspace_state, args>>
    /\ UnchangedEngineGhosts

Exec_Activate ==
    /\ pc = "command"
    /\ args.command = "Activate"
    /\ LET workspace == workspace_from_selection(workspace_state, args.args.workspace,
                                                 args.args.output)
       IN  IF IsErr(workspace) THEN Question(workspace)
           ELSE Sent(WorkspaceHandle_activate(workspace.ok.handle)
                     \o WorkspaceState_commit(workspace_state))
    /\ UNCHANGED <<registry, protocol_version, workspace_state, args>>
    /\ UnchangedEngineGhosts

Exec_Deactivate ==
    /\ pc = "command"
    /\ args.command = "Deactivate"
    /\ LET workspace == workspace_from_selection(workspace_state, args.args.workspace,
                                                 args.args.output)
       IN  IF IsErr(workspace) THEN Question(workspace)
           ELSE Sent(WorkspaceHandle_deactivate(workspace.ok.handle)
                     \o WorkspaceState_commit(workspace_state))
    /\ UNCHANGED <<registry, protocol_version, workspace_state, args>>
    /\ UnchangedEngineGhosts

Exec_Remove ==
    /\ pc = "command"
    /\ args.command = "Remove"
    /\ LET workspace == workspace_from_selection(workspace_state, args.args.workspace,
                                                 args.args.output)
       IN  IF IsErr(workspace) THEN Question(workspace)
           ELSE Sent(WorkspaceHandle_remove(workspace.ok.handle)
                     \o WorkspaceHandle_destroy(workspace.ok.handle)
                     \o WorkspaceState_commit(workspace_state))
    /\ UNCHANGED <<registry, protocol_version, workspace_state, args>>
    /\ UnchangedEngineGhosts

\* an arm that commits whatever assign returned
Exec_Assign_commit_first ==
    /\ pc = "command"
    /\ args.command = "Assign"
    /\ LET workspace == workspace_from_selection(workspace_state,
                            args.workspace_args.workspace, args.workspace_args.output)
           group == group_from_output(workspace_state, args.target)
           assigned == WorkspaceHandle_assign(workspace.ok.handle, group.ok.handle)
       IN  IF IsErr(workspace) THEN Question(workspace)
           ELSE IF IsErr(group) THEN Question(group)
           ELSE IF IsErr(assigned)
           THEN Return(assigned) /\ wire' = wire \o WorkspaceState_commit(workspace_state)
           ELSE Sent(assigned.ok \o WorkspaceState_commit(workspace_state))
    /\ UNCHANGED <<registry, protocol_version, workspace_state, args>>
    /\ UnchangedEngineGhosts

Exec_Assign ==
    /\ pc = "command"
    /\ args.command = "Assign"
    /\ LET workspace == workspace_from_selection(workspace_state,
                            args.workspace_args.workspace, args.workspace_args.output)
           group == group_from_output(workspace_state, args.target)
           assigned == WorkspaceHandle_assign(workspace.ok.handle, group.ok.handle)
       IN  IF IsErr(workspace) THEN Question(workspace)
           ELSE IF IsErr(group) THEN Question(group)
           ELSE IF IsErr(assigned) THEN Question(assigned)
           ELSE Sent(assigned.ok \o WorkspaceState_commit(workspace_state))
    /\ UNCHANGED <<registry, protocol_version, workspace_state, args>>
    /\ UnchangedEngineGhosts

\* events.roundtrip(&mut workspace_manager)?; Ok(())
Roundtrip2 ==
    /\ pc = "roundtrip2"
    /\ wire' = Append(wire, Sync)
    /\ \E reply \in Replies :
          LET r == dispatch_pending(workspace_state, reply)
          IN  IF IsPanic(r)
              THEN /\ pc' = "panicked"
                   /\ exit' = Aborted("panic in an event handler")
                   /\ UNCHANGED workspace_state
              ELSE /\ Return(Ok(<<>>))
                   /\ workspace_state' = r
    /\ UNCHANGED <<registry, protocol_version, args>>
    /\ UnchangedEngineGhosts

\* the process is started: the compositor advertises `registry`, the command
\* line is yet to be parsed
InitExec ==
    /\ pc = "parse"
    /\ registry \in SUBSET Dialects
    /\ protocol_version \in ProtocolVersions
    /\ workspace_state = None
    /\ args \in Argvs
    /\ wire = <<>>
    /\ exit = Running
    /\ last = "none"
    /\ txn = [before |-> None, batch |-> <<>>]
    /\ delivered = 0
    /\ stdout = <<>>
    /\ compositor = None

NextExec ==
    \/ Parse
    \/ Setup
    \/ SetupExpect
    \/ Roundtrip
    \/ Exec_List
    \/ Exec_Listen
    \/ Exec_CreateWorkspace
    \/ Exec_Activate
    \/ Exec_Deactivate
    \/ Exec_Remove
    \/ Exec_Assign
    \/ Roundtrip2

SpecExec == InitExec /\ [][NextExec]_vars

-----------------------------------------------------------------------------
(* WorkspaceHandle::assign on its own: any workspace handle, any group     *)
(* handle                                                                  *)

WorkspaceHandles == {WorkspaceHandle(v, i) : v \in Dialects, i \in WorkspaceIds}
GroupHandles == {GroupHandle(v, i) : v \in Dialects, i \in GroupIds}

Assign ==
    /\ pc = "assign"
    /\ LET r == WorkspaceHandle_assign(args.self, args.group)
       IN  /\ wire' = IF IsOk(r) THEN wire \o r.ok ELSE wire
           /\ Return(r)
    /\ UNCHANGED <<registry, protocol_version, workspace_state, args>>
    /\ UnchangedEngineGhosts

InitAssign ==
    /\ pc = "assign"
    /\ registry = {}
    /\ protocol_version = None
    /\ \E dialect \in Dialects : workspace_state = WorkspaceState_new(dialect)
    /\ args \in [self : WorkspaceHandles, group : GroupHandles]
    /\ wire = <<>>
    /\ exit = Running
    /\ last = "none"
    /\ txn = [before |-> None, batch |-> <<>>]
    /\ delivered = 0
    /\ stdout = <<>>
    /\ compositor = None

NextAssign == Assign

SpecAssign == InitAssign /\ [][NextAssign]_vars

-----------------------------------------------------------------------------
(* Construction and commands                                               *)

Manager == workspace_state.manager

\* C6: without a preferred dialect construction binds the first advertised
\* of ExtV0, ExtV1, Cosmic: an advertised one, ExtV0 whenever it is
\* advertised, and Cosmic only when ExtV1 is not.
C6_FirstAdvertisedIsBound ==
    [][(pc = "setup" /\ protocol_version = None /\ registry # {}) =>
          /\ pc' = "roundtrip"
          /\ Manager' \in registry
          /\ "ExtV0" \in registry => Manager' = "ExtV0"
          /\ "ExtV1" \in registry => Manager' # "CosmicV1"]_vars

\* ExtV1 and Cosmic are advertised, no dialect is preferred: ExtV1 is bound
C6_Witness ==
    /\ pc = "roundtrip"
    /\ protocol_version = None
    /\ registry = {"ExtV1", "CosmicV1"}
    /\ Manager = "ExtV1"

\* the dialects that --protocol-version asks for
Requested ==
    IF protocol_version = None THEN Dialects
    ELSE CASE Unwrap(protocol_version) = "ext_v0" -> {"ExtV0"}
           [] Unwrap(protocol_version) = "ext_v1" -> {"ExtV1"}
           [] Unwrap(protocol_version) = "cosmic_v1" -> {"CosmicV1"}
           [] OTHER -> {}

\* C7: when no requested manager is advertised construction returns an error
\* value: it binds nothing and does not abort.
C7_UnavailableIsAnErrorValue ==
    [][(pc = "setup" /\ Requested \cap registry = {}) =>
          (pc' = "setup_err" /\ exit'.code = "Err")]_vars

\* no dialect preferred, none advertised: construction has returned Err
C7_Witness ==
    /\ pc = "setup_err"
    /\ protocol_version = None
    /\ registry = {}
    /\ exit.code = "Err"

\* C8: assign sends one assign request and returns Ok exactly when both
\* handles are ExtV1; for every other pair it returns an error and sends
\* nothing.
C8_AssignOnlyExtV1 ==
    pc = "exited" /\ "self" \in DOMAIN args =>
        IF args.self.variant = "ExtV1" /\ args.group.variant = "ExtV1"
        THEN /\ exit = [code |-> "Ok"]
             /\ Len(wire) = 1
             /\ wire[1].request = "assign"
             /\ wire[1].object = args.self
             /\ wire[1].arg = <<args.group>>
        ELSE exit.code = "Err" /\ wire = <<>>

\* an ExtV1 workspace was to be assigned to a group of another dialect
C8_Witness ==
    /\ pc = "exited"
    /\ "self" \in DOMAIN args
    /\ args.self.variant = "ExtV1"
    /\ args.group.variant = "CosmicV1"
    /\ exit.code = "Err"
    /\ wire = <<>>

\* C9: a command that ends with an error has sent no request and no commit:
\* the connection has seen at most the sync of the first roundtrip.
C9_ErrorSendsNothing ==
    exit.code = "Err" => \A i \in 1..Len(wire) : wire[i].request = "sync"

\* assign under an ExtV0 binding: both selectors resolved, assign refused
C9_Witness ==
    /\ pc = "exited"
    /\ exit.code = "Err"
    /\ args.command = "Assign"
    /\ Manager = "ExtV0"
    /\ IsOk(workspace_from_selection(workspace_state, args.workspace_args.workspace,
                                     args.workspace_args.output))
    /\ IsOk(group_from_output(workspace_state, args.target))
    /\ \A i \in 1..Len(wire) : wire[i].request = "sync"

\* C10: a mutating command that ran to its end has sent: the sync of the
\* first roundtrip, its requests, one commit, the sync of the second
\* roundtrip, and nothing else.
C10_RequestsThenOneCommit ==
    (pc = "exited" /\ exit.code = "Ok" /\ args.command \in MutatingCommands) =>
        /\ Len(wire) >= 4
        /\ wire[1].request = "sync"
        /\ wire[Len(wire)].request = "sync"
        /\ wire[Len(wire) - 1].request = "commit"
        /\ \A i \in 2..(Len(wire) - 2) : wire[i].request \notin {"sync", "commit"}

\* create-workspace on a resolved output has run to its end
C10_Witness ==
    /\ pc = "exited"
    /\ exit.code = "Ok"
    /\ args.command = "CreateWorkspace"
    /\ \E i \in 1..Len(wire) : wire[i].request = "create_workspace"

-----------------------------------------------------------------------------
(* workspace_from_selection on its own: any selector, any output selector, *)
(* over the states that a first roundtrip leaves                           *)

\* two groups; the workspaces of group 1 are announced against the order of
\* their ids, share the name "a" and are both active
ServerUnordered(dialect) ==
    <<WorkspaceGroup(1), WorkspaceGroup(2),
      G(1, [name |-> "OutputEnter", output |-> 21]),
      G(2, [name |-> "OutputEnter", output |-> 22])>>
    \o AnnounceWorkspace(dialect, 1, 12)
    \o AnnounceWorkspace(dialect, 1, 11)
    \o AnnounceWorkspace(dialect, 2, 13)
    \o <<W(12, [name |-> "Name", name_arg |-> "a"]),
         W(11, [name |-> "Name", name_arg |-> "a"]),
         W(13, [name |-> "Name", name_arg |-> "b"]),
         W(12, [name |-> "State", state |-> ActiveState(dialect)]),
         W(11, [name |-> "State", state |-> ActiveState(dialect)]),
         W(12, [name |-> "Coordinates", coordinates |-> <<1>>]),
         W(11, [name |-> "Coordinates", coordinates |-> <<0>>]),
         W(13, [name |-> "Coordinates", coordinates |-> <<0, 1>>]),
         DoneRaw>>

\* the workspace 11 is announced a second time after it got its name
ServerAnnouncedTwice(dialect) ==
    ServerOneGroup(dialect) \o AnnounceWorkspace(dialect, 1, 11) \o <<DoneRaw>>

SelectServers(dialect) ==
    Servers(dialect) \cup {ServerUnordered(dialect), ServerAnnouncedTwice(dialect)}

SelectWorkspaceSelectors ==
    {[NoWorkspaceSelector EXCEPT !.active = TRUE]}
    \cup {[NoWorkspaceSelector EXCEPT !.index = Some(i)] : i \in {0, 1, 2, 3}}
    \cup {[NoWorkspaceSelector EXCEPT !.name = Some(n)] : n \in {"a", "b", "zz"}}
    \cup {[NoWorkspaceSelector EXCEPT !.protocol_id = Some(i)] : i \in {11, 12, 13, 14}}
    \cup {[NoWorkspaceSelector EXCEPT !.coordinates = Some(c)] :
             c \in {<<0>>, <<1>>, <<0, 1>>}}

SelectOutputSelectors ==
    {[output_name |-> Some(n), output_protocol_id |-> None] :
        n \in {"DP-1", "DP-2", "DP-9"}}
    \cup {[output_name |-> None, output_protocol_id |-> Some(i)] : i \in {21, 22, 29}}

\* the Result of workspace_from_selection, kept for inspection
Resolved(r) ==
    IF IsOk(r) THEN [code |-> "Ok", value |-> r.ok] ELSE [code |-> "Err", error |-> r.err]

Select ==
    /\ pc = "select"
    /\ pc' = "selected"
    /\ exit' = Resolved(workspace_from_selection(workspace_state, args.workspace,
                                                 args.output))
    /\ UNCHANGED <<registry, protocol_version, workspace_state, args, wire>>
    /\ UnchangedEngineGhosts

InitSelect ==
    /\ pc = "select"
    /\ registry = {}
    /\ protocol_version = None
    /\ \E dialect \in Dialects : \E server \in SelectServers(dialect) :
          workspace_state = dispatch_pending(WorkspaceState_new(dialect), server)
    /\ args \in [workspace : SelectWorkspaceSelectors,
                 output : {None} \cup {Some(o) : o \in SelectOutputSelectors}]
    /\ wire = <<>>
    /\ exit = Running
    /\ last = "Done"
    /\ txn = [before |-> None, batch |-> <<>>]
    /\ delivered = 0
    /\ stdout = <<>>
    /\ compositor = None

NextSelect == Select

SpecSelect == InitSelect /\ [][NextSelect]_vars

\* the workspaces the selector chooses among: those of the group that the
\* output selector names, or all of them
Workspaces == workspace_state.workspaces
Positions == 1..Len(Workspaces)
Selected == pc = "selected"

MatchingGroups ==
    LET output == Unwrap(args.output)
    IN  {j \in 1..Len(workspace_state.groups) :
            LET group == workspace_state.groups[j]
            IN  /\ group.output # None
                /\ IF output.output_name # None
                   THEN OutputName(Unwrap(group.output)) = output.output_name
                   ELSE group.output = output.output_protocol_id}

\* the output selector, if any, names a group
ScopeResolves == args.output # None => MatchingGroups # {}

\* the positions of the candidates: every workspace, or those whose group is
\* the first group on the selected output
Candidates ==
    IF args.output = None THEN Positions
    ELSE LET g == CHOOSE j \in MatchingGroups : \A k \in MatchingGroups : j <= k
         IN  {i \in Positions :
                Workspaces[i].group = Some(workspace_state.groups[g].handle.id)}

\* the smallest protocol id among the workspaces at the positions S
SmallestId(S) ==
    CHOOSE id \in {Workspaces[i].handle.id : i \in S} :
        \A i \in S : id <= Workspaces[i].handle.id

\* C12: the name selector N yields the candidate named N with the smallest
\* protocol id, whatever the order of announcement, and fails with "unable
\* to find workspace with name" when no candidate has the name.
C12_NameYieldsSmallestId ==
    (Selected /\ args.workspace.name # None /\ ScopeResolves) =>
        LET named == {i \in Candidates : Workspaces[i].name = args.workspace.name}
        IN  IF named # {}
            THEN exit.code = "Ok" /\ exit.value.handle.id = SmallestId(named)
            ELSE exit.code = "Err" /\ exit.error = "Unable to find workspace with name"

\* the name "a" was resolved while two workspaces carry it
C12_Witness ==
    /\ Selected
    /\ args.workspace.name = Some("a")
    /\ args.output = None
    /\ Cardinality({i \in Positions : Workspaces[i].name = Some("a")}) = 2
    /\ exit.code = "Ok"

\* C13: the index selector i yields the i-th (from 0) candidate in ascending
\* order of protocol id, whatever the order of announcement, and fails with
\* "unable to find workspace with index" when i is not below the number of
\* candidates.
C13_IndexInIdOrder ==
    (Selected /\ args.workspace.index # None /\ ScopeResolves) =>
        LET i == Unwrap(args.workspace.index)
        IN  IF i < Cardinality(Candidates)
            THEN /\ exit.code = "Ok"
                 /\ \E k \in Candidates : Workspaces[k] = exit.value
                 /\ Cardinality({k \in Candidates :
                        Workspaces[k].handle.id < exit.value.handle.id}) <= i
                 /\ Cardinality({k \in Candidates :
                        Workspaces[k].handle.id <= exit.value.handle.id}) > i
            ELSE exit.code = "Err" /\ exit.error = "Unable to find workspace with index"

\* index 0 over workspaces announced as 12, 11, 13 came back as 11
C13_Witness ==
    /\ Selected
    /\ args.workspace.index = Some(0)
    /\ args.output = None
    /\ Len(Workspaces) = 3
    /\ Workspaces[1].handle.id = 12
    /\ exit.code = "Ok"
    /\ exit.value.handle.id = 11

\* C14: the active selector yields a candidate whose state contains active,
\* the one with the smallest protocol id when several are active, and fails
\* with "unable to find active workspace" when none is.
C14_ActiveYieldsSmallestId ==
    (Selected /\ args.workspace.active /\ ScopeResolves) =>
        LET active == {i \in Candidates : "Active" \in Workspaces[i].state}
        IN  IF active # {}
            THEN /\ exit.code = "Ok"
                 /\ "Active" \in exit.value.state
                 /\ exit.value.handle.id = SmallestId(active)
            ELSE exit.code = "Err" /\ exit.error = "Unable to find active workspace!"

\* the active selector was resolved on an output with two active workspaces
C14_Witness ==
    /\ Selected
    /\ args.workspace.active
    /\ args.output # None
    /\ ScopeResolves
    /\ Cardinality({i \in Candidates : "Active" \in Workspaces[i].state}) = 2
    /\ exit.code = "Ok"

\* C15: with an output selector, resolution fails with "unable to find
\* output" when no group's output matches, and every workspace it returns
\* belongs to a group on the selected output, for every kind of workspace
\* selector.
C15_OutputScopesTheResult ==
    (Selected /\ args.output # None) =>
        IF MatchingGroups = {}
        THEN /\ exit.code = "Err"
             /\ exit.error \in {"Unable to find output with name",
                                "Unable to find output with protocol id"}
        ELSE exit.code = "Ok" =>
                \E j \in MatchingGroups :
                    exit.value.group = Some(workspace_state.groups[j].handle.id)

\* a workspace was resolved on the second output although other workspaces
\* come first in the state
C15_Witness ==
    /\ Selected
    /\ args.output # None
    /\ Unwrap(args.output).output_protocol_id = Some(22)
    /\ Len(Workspaces) = 3
    /\ exit.code = "Ok"
    /\ exit.value.handle.id = 13

\* C16: the coordinates selector c yields the candidate whose coordinates
\* equal c; it fails with an arity error when the candidates' coordinates
\* have another length than c, and with a not-found error when the lengths
\* agree and no candidate has the coordinates c.
C16_CoordinatesYieldTheMatch ==
    (Selected /\ args.workspace.coordinates # None /\ ScopeResolves) =>
        LET at == {i \in Candidates : Workspaces[i].coordinates = args.workspace.coordinates}
        IN  IF at # {}
            THEN exit.code = "Ok" /\ exit.value.coordinates = args.workspace.coordinates
            ELSE exit.code = "Err"

\* coordinates were asked for on an output where a workspace has them
C16_Witness ==
    /\ Selected
    /\ args.workspace.coordinates = Some(<<0>>)
    /\ args.output # None
    /\ ScopeResolves
    /\ \E i \in Candidates : Workspaces[i].coordinates = Some(<<0>>)


\* C17: a command whose workspace selector is active or coordinates and that
\* names no output is rejected: it sends nothing, resolves no workspace and
\* ends with the usage error.
C17_SelectorRequiresOutput ==
    LET a == WorkspaceArgsOf(args)
    IN  (/\ a # None
         /\ Unwrap(a).workspace.active \/ Unwrap(a).workspace.coordinates # None
         /\ Unwrap(a).output = None) =>
            /\ wire = <<>>
            /\ pc \in {"parse", "exited"}
            /\ exit.code # "Ok"
            /\ pc = "exited" => exit.code = "usage"

\* activate --active without an output has been turned away
C17_Witness ==
    /\ pc = "exited"
    /\ exit.code = "usage"
    /\ args.command = "Activate"
    /\ args.args.workspace.active
    /\ args.args.output = None
    /\ wire = <<>>


-----------------------------------------------------------------------------
(* The State event of the byte-buffer dialects, handler by handler          *)

\* u32::from_le_bytes of a four-byte buffer
u32_from_le_bytes(b) == b[1] + 256 * b[2] + 65536 * b[3] + 16777216 * b[4]

\* u32::from_ne_bytes: the byte order of the target the program is built for
u32_from_ne_bytes(b, target_endian) ==
    IF target_endian = "little" THEN u32_from_le_bytes(b)
    ELSE u32_from_le_bytes(<<b[4], b[3], b[2], b[1]>>)

\* WorkspaceStates(7): every named state
WorkspaceStates_all == WorkspaceStates(7)

\* a.symmetric_difference(b) on the named bits
symmetric_difference(a, b) == (a \ b) \cup (b \ a)

\* u8::rotate_left(0): a rotation that moves nothing
rotate_left_0(x) == x

\* u8::rotate_left(1)
rotate_left_1(x) == ((2 * x) % 256) + (x \div 128)

\* the capability bits a Cosmic capabilities array inserts
RECURSIVE cosmic_v1_caps(_)
cosmic_v1_caps(capabilities) ==
    IF capabilities = <<>> THEN {}
    ELSE LET bits == Head(capabilities)
             kept == IF bits \in {8, 16} THEN rotate_left_1(bits) ELSE bits
         IN  {b \in {1, 2, 4, 8, 16, 32, 64, 128} : Bit(kept, b)}
             \cup cosmic_v1_caps(Tail(capabilities))

WorkspaceTilingState(w, t) == [type |-> "WorkspaceTilingState", workspace |-> w, tiling |-> t]

\* workspace_protocol_ext_v0.rs
ext_v0_ZextWorkspaceHandleV1_event(st, handle, event, target_endian) ==
    CASE event.name = "State" ->
           IF Len(event.state) # 4 THEN st
           ELSE LET bits == u32_from_ne_bytes(event.state, target_endian)
                IN  push(st, WorkspaceStateEv(WorkspaceHandle("ExtV0", handle),
                        symmetric_difference(WorkspaceStates(bits), WorkspaceStates_all)))
      [] event.name = "Name" ->
           push(st, WorkspaceName(WorkspaceHandle("ExtV0", handle), event.name_arg))
      [] event.name = "Coordinates" ->
           push(st, WorkspaceCoord(WorkspaceHandle("ExtV0", handle), event.coordinates))
      [] event.name = "Remove" ->
           push(st, WorkspaceRemoved(WorkspaceHandle("ExtV0", handle)))

\* workspace_protocol_cosmic_v1.rs
cosmic_v1_ZcosmicWorkspaceHandleV1_event(st, handle, event, target_endian) ==
    CASE event.name = "State" ->
           IF Len(event.state) # 4 THEN st
           ELSE LET bits == u32_from_ne_bytes(event.state, target_endian)
                IN  push(st, WorkspaceStateEv(WorkspaceHandle("CosmicV1", handle),
                                              WorkspaceStates(bits)))
      [] event.name = "Name" ->
           push(st, WorkspaceName(WorkspaceHandle("CosmicV1", handle), event.name_arg))
      [] event.name = "Coordinates" ->
           push(st, WorkspaceCoord(WorkspaceHandle("CosmicV1", handle), event.coordinates))
      [] event.name = "Remove" ->
           push(st, WorkspaceRemoved(WorkspaceHandle("CosmicV1", handle)))
      [] event.name = "Capabilities" ->
           push(st, WorkspaceCapabilitiesOf(WorkspaceHandle("CosmicV1", handle),
                                            cosmic_v1_caps(event.capabilities)))
      [] event.name = "TilingState" ->
           IF IsValue(event.tiling_state)
           THEN push(st, WorkspaceTilingState(WorkspaceHandle("CosmicV1", handle),
                                              event.tiling_state.value))
           ELSE st

\* the state buffers a server may send: every word of the three named bits,
\* words with other bits, and buffers of other lengths
DecodeBuffers ==
    {<<b, 0, 0, 0>> : b \in 0..7}
    \cup {<<9, 0, 0, 0>>, <<1, 1, 0, 0>>, <<0, 0, 0, 1>>}
    \cup {<<>>, <<0, 1, 2>>, <<1, 0, 0>>, <<5, 0, 0, 0, 0>>}

\* the two sets of Dispatch implementations: those of workspace_state.rs
\* and those of workspace_protocol_*.rs
Dispatchers == {"workspace_state", "workspace_protocol"}

TargetEndians == {"little", "big"}

StateRaw == [name |-> "State", state |-> args.state]

Decoded(st) ==
    /\ pc = "decode"
    /\ pc' = "queued"
    /\ workspace_state' = st
    /\ UNCHANGED <<registry, protocol_version, args, wire, exit>>
    /\ UnchangedEngineGhosts

\* the State event reaches the ZextWorkspaceHandleV1 handler of workspace_state.rs
Decode_ZextWorkspaceHandleV1 ==
    /\ workspace_state.manager = "ExtV0"
    /\ args.dispatcher = "workspace_state"
    /\ Decoded(ZextWorkspaceHandleV1_event(workspace_state, args.workspace, StateRaw))

\* ... the ZcosmicWorkspaceHandleV1 handler of workspace_state.rs
Decode_ZcosmicWorkspaceHandleV1 ==
    /\ workspace_state.manager = "CosmicV1"
    /\ args.dispatcher = "workspace_state"
    /\ Decoded(ZcosmicWorkspaceHandleV1_event(workspace_state, args.workspace, StateRaw))

\* ... the handler of workspace_protocol_ext_v0.rs
Decode_ext_v0 ==
    /\ workspace_state.manager = "ExtV0"
    /\ args.dispatcher = "workspace_protocol"
    /\ Decoded(ext_v0_ZextWorkspaceHandleV1_event(workspace_state, args.workspace,
                                                  StateRaw, args.target_endian))

\* ... the handler of workspace_protocol_cosmic_v1.rs
Decode_cosmic_v1 ==
    /\ workspace_state.manager = "CosmicV1"
    /\ args.dispatcher = "workspace_protocol"
    /\ Decoded(cosmic_v1_ZcosmicWorkspaceHandleV1_event(workspace_state, args.workspace,
                                                        StateRaw, args.target_endian))

\* the manager's Done that follows
Decode_Done ==
    /\ pc = "queued"
    /\ pc' = "done"
    /\ workspace_state' =
          IF args.dispatcher = "workspace_state"
          THEN Dispatch(workspace_state, DoneRaw)
          ELSE WorkspaceState_handle_events(workspace_state)
    /\ UNCHANGED <<registry, protocol_version, args, wire, exit>>
    /\ UnchangedEngineGhosts

\* a session whose first batch is applied; the next event is a State event
\* for one of its workspaces
InitDecode ==
    /\ pc = "decode"
    /\ registry = {}
    /\ protocol_version = None
    /\ \E dialect \in {"ExtV0", "CosmicV1"} :
       \E server \in {ServerOneGroup(dialect), ServerTwoGroups(dialect)} :
          workspace_state = dispatch_pending(WorkspaceState_new(dialect), server)
    /\ \E i \in 1..Len(workspace_state.workspaces) :
          args \in [dispatcher : Dispatchers,
                    target_endian : TargetEndians,
                    workspace : {workspace_state.workspaces[i].handle.id},
                    state : DecodeBuffers]
    /\ wire = <<>>
    /\ exit = Running
    /\ last = "Done"
    /\ txn = [before |-> None, batch |-> <<>>]
    /\ delivered = 0
    /\ stdout = <<>>
    /\ compositor = None

NextDecode ==
    \/ Decode_ZextWorkspaceHandleV1
    \/ Decode_ZcosmicWorkspaceHandleV1
    \/ Decode_ext_v0
    \/ Decode_cosmic_v1
    \/ Decode_Done

SpecDecode == InitDecode /\ [][NextDecode]_vars

\* the State event was sent in the dialect `dialect`
StateSentIn(dialect) ==
    /\ "dispatcher" \in DOMAIN args
    /\ workspace_state.manager = dialect

\* the queue holds the state event with the named bits of the
\* little-endian word of the buffer, and nothing else
QueuedBitsOfWord ==
    /\ Len(workspace_state.events) = 1
    /\ workspace_state.events[1].type = "WorkspaceState"
    /\ workspace_state.events[1].workspace.id = args.workspace
    /\ workspace_state.events[1].state = WorkspaceStates(u32_from_le_bytes(args.state))

\* C18: for every 4-byte state buffer of ExtV0, the event that is queued
\* carries exactly the states named by the bits of the buffer read as a
\* little-endian word: active for 1, hidden for 2, urgent for 4.
C18_ExtV0StateIsBitsOfWord ==
    (StateSentIn("ExtV0") /\ Len(args.state) = 4 /\ pc = "queued") => QueuedBitsOfWord

\* the buffer 1,0,0,0 of ExtV0 went through the handler of
\* workspace_protocol_ext_v0.rs and an event was queued
C18_Witness ==
    /\ StateSentIn("ExtV0")
    /\ pc = "queued"
    /\ args.dispatcher = "workspace_protocol"
    /\ args.state = <<1, 0, 0, 0>>
    /\ Len(workspace_state.events) = 1

\* C19: a 4-byte state buffer of Cosmic is decoded as the bits of its
\* little-endian word, used as they are: 5,0,0,0 gives active and urgent.
C19_CosmicStateIsBitsOfWord ==
    (StateSentIn("CosmicV1") /\ Len(args.state) = 4 /\ pc = "queued") =>
        /\ QueuedBitsOfWord
        /\ args.state = <<5, 0, 0, 0>> =>
              workspace_state.events[1].state = {"Active", "Urgent"}

\* the buffer 5,0,0,0 of Cosmic went through the handler of
\* workspace_protocol_cosmic_v1.rs and came out as active and urgent
C19_Witness ==
    /\ StateSentIn("CosmicV1")
    /\ pc = "queued"
    /\ args.dispatcher = "workspace_protocol"
    /\ args.target_endian = "little"
    /\ args.state = <<5, 0, 0, 0>>
    /\ Len(workspace_state.events) = 1
    /\ workspace_state.events[1].state = {"Active", "Urgent"}

\* C20: a state event of ExtV0 or Cosmic whose buffer is not exactly 4 bytes
\* long is dropped: the handler queues nothing, and the next Done leaves the
\* workspaces as they were.
C20_OtherLengthsAreDropped ==
    [][(/\ "dispatcher" \in DOMAIN args
        /\ Len(args.state) # 4) =>
          /\ pc = "decode" => workspace_state'.events = <<>>
          /\ pc = "queued" => workspace_state'.workspaces = workspace_state.workspaces]_vars

\* a 3-byte buffer went through a handler of workspace_protocol_*.rs, and
\* Done has been handled since
C20_Witness ==
    /\ "dispatcher" \in DOMAIN args
    /\ pc = "done"
    /\ args.dispatcher = "workspace_protocol"
    /\ Len(args.state) = 3
    /\ workspace_state.events = <<>>


-----------------------------------------------------------------------------
(* The Capabilities event of a workspace, in the dialects that have one     *)

\* the elements a Cosmic capabilities array may hold
CapValues == {0, 1, 2, 4, 8, 16, 32, 3, 24}

MaxCaps == 2

\* capabilities arrays of Cosmic
CosmicCapArrays == UNION {[1..n -> CapValues] : n \in 0..MaxCaps}

\* capabilities arguments of ext-workspace-v1
ExtV1CapEnums == {[value |-> v] : v \in {0, 1, 2, 8, 16, 24, 63, 64}} \cup {[unknown |-> 128]}

CapabilitiesRaw == [name |-> "Capabilities", capabilities |-> args.capabilities]

\* the Capabilities event reaches the handler of workspace_protocol_cosmic_v1.rs
Caps_cosmic_v1 ==
    /\ pc = "decode"
    /\ workspace_state.manager = "CosmicV1"
    /\ pc' = "queued"
    /\ workspace_state' = cosmic_v1_ZcosmicWorkspaceHandleV1_event(
                              workspace_state, args.workspace, CapabilitiesRaw, "little")
    /\ UNCHANGED <<registry, protocol_version, args, wire, exit>>
    /\ UnchangedEngineGhosts

\* ... the handler of workspace_protocol_ext_v1.rs
Caps_ext_v1 ==
    /\ pc = "decode"
    /\ workspace_state.manager = "ExtV1"
    /\ pc' = "queued"
    /\ workspace_state' = ext_v1_ExtWorkspaceHandleV1_event(
                              workspace_state, args.workspace, CapabilitiesRaw)
    /\ UNCHANGED <<registry, protocol_version, args, wire, exit>>
    /\ UnchangedEngineGhosts

InitCaps ==
    /\ pc = "decode"
    /\ registry = {}
    /\ protocol_version = None
    /\ \E dialect \in {"CosmicV1", "ExtV1"} :
       \E server \in {ServerOneGroup(dialect), ServerTwoGroups(dialect)} :
          workspace_state = dispatch_pending(WorkspaceState_new(dialect), server)
    /\ \E i \in 1..Len(workspace_state.workspaces) :
          args \in [workspace : {workspace_state.workspaces[i].handle.id},
                    capabilities : IF workspace_state.manager = "CosmicV1"
                                   THEN CosmicCapArrays ELSE ExtV1CapEnums]
    /\ wire = <<>>
    /\ exit = Running
    /\ last = "Done"
    /\ txn = [before |-> None, batch |-> <<>>]
    /\ delivered = 0
    /\ stdout = <<>>
    /\ compositor = None

NextCaps ==
    \/ Caps_cosmic_v1
    \/ Caps_ext_v1

SpecCaps == InitCaps /\ [][NextCaps]_vars

\* the capability bits of the word v
BitsOfValue(v) == {b \in {1, 2, 4, 8, 16, 32, 64, 128} : (v \div b) % 2 = 1}

\* the capabilities argument has been through its handler
CapsQueued == pc = "queued" /\ "capabilities" \in DOMAIN args

\* C21: the capability set queued for a Cosmic workspace is the union, over
\* the received values v, of the bits of 16 for v = 8, of 32 for v = 16 and of
\* v itself otherwise; ext-workspace-v1 hands the bits on as they are.
C21_CosmicCapsRotated ==
    CapsQueued =>
        IF workspace_state.manager = "CosmicV1"
        THEN /\ Len(workspace_state.events) = 1
             /\ workspace_state.events[1].type = "WorkspaceCapabilitiesOf"
             /\ workspace_state.events[1].caps =
                   UNION {BitsOfValue(IF v = 8 THEN 16 ELSE IF v = 16 THEN 32 ELSE v) :
                             v \in {args.capabilities[i] : i \in 1..Len(args.capabilities)}}
        ELSE \A i \in 1..Len(workspace_state.events) :
                workspace_state.events[i].caps = args.capabilities.value

\* the array 8, 1 of Cosmic has been queued as the bits 16 and 1
C21_Witness ==
    /\ CapsQueued
    /\ workspace_state.manager = "CosmicV1"
    /\ args.capabilities = <<8, 1>>
    /\ Len(workspace_state.events) = 1
    /\ workspace_state.events[1].caps = {1, 16}


-----------------------------------------------------------------------------
(* Commands::Listen with a transport that may fail                          *)

\* events.blocking_dispatch(&mut workspace_manager)? returns Err: exec returns it
BlockingDispatch_Err ==
    /\ pc = "listen"
    /\ Return(Err("transport"))
    /\ UNCHANGED <<registry, protocol_version, workspace_state, args, wire>>
    /\ UnchangedEngineGhosts

\* the loop is entered with the state the first roundtrip of one server left
InitListen ==
    /\ Init
    /\ Len(workspace_state.workspaces) = 1

NextListen ==
    \/ Next
    \/ BlockingDispatch_Err

SpecListen == InitListen /\ [][NextListen]_vars

\* C22: in listen mode the client does not exit on its own: the loop of
\* blocking dispatches is left only by a dispatch that returns a transport
\* error.
C22_ListenEndsOnlyOnTransportError ==
    [][(pc = "listen" /\ pc' # "listen") =>
          /\ pc' = "exited"
          /\ exit'.code = "Err"
          /\ exit'.error = "transport"]_vars

\* a transaction was applied in the loop before the transport failed
C22_Witness ==
    /\ pc = "exited"
    /\ args.command = "Listen"
    /\ exit.code = "Err"
    /\ delivered > 0
    /\ last = "Done"


\* C23: the list command performs one roundtrip, renders and exits: the only
\* thing it ever sends is the sync of that roundtrip, and when it has
\* returned Ok it has printed once.
C23_ListOnlyRenders ==
    args.command = "List" =>
        /\ Len(wire) <= 1
        /\ \A i \in 1..Len(wire) : wire[i].request = "sync"
        /\ pc # "roundtrip2"
        /\ (pc = "exited" /\ exit.code = "Ok") => Len(wire) = 1 /\ Len(stdout) = 1

\* list has printed two groups in text mode and returned
C23_Witness ==
    /\ args.command = "List"
    /\ pc = "exited"
    /\ exit.code = "Ok"
    /\ ~args.args.json
    /\ Len(workspace_state.groups) = 2
    /\ Len(stdout) = 1
    /\ Len(wire) = 1


-----------------------------------------------------------------------------
(* The arms of handle_events, one transaction at a time                     *)

\* this step is a Done that applies the queue `workspace_state.events`
DoneStep == pc = "listen" /\ last' = "Done" /\ workspace_state.events # <<>>

Batch == workspace_state.events

\* the state in front of the k-th event of the batch
Before(k) == handle_events(workspace_state, SubSeq(Batch, 1, k - 1))

\* the events behind the k-th
Behind(k) == SubSeq(Batch, k + 1, Len(Batch))

\* the record the event is looked up by is not in st: the group of an output
\* event, the workspace of a workspace event
UnknownHandle(st, event) ==
    \/ /\ event.type \in {"OutputEnter", "OutputLeave"}
       /\ \A i \in 1..Len(st.groups) : st.groups[i].handle # event.group
    \/ /\ event.type \in {"WorkspaceState", "WorkspaceName", "WorkspaceCoord",
                          "WorkspaceEnter", "WorkspaceLeave"}
       /\ \A i \in 1..Len(st.workspaces) : st.workspaces[i].handle # event.workspace

-----------------------------------------------------------------------------
(* handle_events of main.rs: the state is a map from group handle to the    *)
(* group's outputs and its workspaces (WorkspaceGroupData, WorkspaceData)   *)

WorkspaceGroupData_default == [outputs |-> <<>>, workspaces |-> <<>>]

WorkspaceData_default(workspace) ==
    [handle |-> workspace, name |-> None, coordinates |-> None, states |-> {}]

\* workspace_groups().entry(g).and_modify(f): f's result is passed in as `data`
and_modify(groups, g, data) ==
    IF g \in DOMAIN groups THEN [groups EXCEPT ![g] = data] ELSE groups

\* workspaces.insert(workspace, data): the entry of the handle is replaced
insert_workspace(workspaces, data) ==
    SelectSeq(workspaces, LAMBDA w : w.handle # data.handle) \o <<data>>

\* iter_mut().find_map(|(_, d)| d.workspaces.get_mut(&workspace)), then the
\* field f is set; the order of the map is that of the handles here
main_set_field(groups, workspace, f, v) ==
    LET holders == {g \in DOMAIN groups :
                       \E i \in 1..Len(groups[g].workspaces) :
                           groups[g].workspaces[i].handle = workspace}
    IN  IF holders = {} THEN groups
        ELSE LET g == CHOOSE h \in holders : \A k \in holders : h.id <= k.id
                 i == FirstIndex({j \in 1..Len(groups[g].workspaces) :
                                     groups[g].workspaces[j].handle = workspace})
             IN  [groups EXCEPT ![g].workspaces[i] = SetField(@, f, v)]

\* one iteration of the loop of handle_events in main.rs
main_handle_event(groups, event) ==
    CASE event.type = "WorkspaceGroupCreated" ->
           [g \in DOMAIN groups \cup {event.group} |->
               IF g = event.group THEN WorkspaceGroupData_default ELSE groups[g]]
      [] event.type = "WorkspaceGroupRemoved" ->
           [g \in DOMAIN groups \ {event.group} |-> groups[g]]
      [] event.type = "WorkspaceCreated" ->
           LET g == Unwrap(event.group)
           IN  IF g \in DOMAIN groups
               THEN and_modify(groups, g,
                       [groups[g] EXCEPT !.workspaces =
                           insert_workspace(@, WorkspaceData_default(event.workspace))])
               ELSE groups
      [] event.type = "WorkspaceRemoved" ->
           [g \in DOMAIN groups |->
               [groups[g] EXCEPT !.workspaces =
                   SelectSeq(@, LAMBDA w : w.handle # event.workspace)]]
      [] event.type = "OutputEnter" ->
           IF event.group \in DOMAIN groups
           THEN and_modify(groups, event.group,
                   [groups[event.group] EXCEPT !.outputs = Append(@, event.output)])
           ELSE groups
      [] event.type = "OutputLeave" ->
           \* e.outputs.retain(|o| *o == output)
           IF event.group \in DOMAIN groups
           THEN and_modify(groups, event.group,
                   [groups[event.group] EXCEPT
                       !.outputs = SelectSeq(@, LAMBDA o : o = event.output)])
           ELSE groups
      [] event.type = "WorkspaceState" ->
           main_set_field(groups, event.workspace, "states",
               (IF GetIs(event.state, 0, 0) THEN {"Active"} ELSE {})
               \cup (IF GetIs(event.state, 1, 1) THEN {"Urgent"} ELSE {})
               \cup (IF GetIs(event.state, 2, 2) THEN {"Hidden"} ELSE {}))
      [] event.type = "WorkspaceName" ->
           main_set_field(groups, event.workspace, "name", Some(event.name))
      [] event.type = "WorkspaceCoord" ->
           main_set_field(groups, event.workspace, "coordinates", Some(event.coordinates))

RECURSIVE main_handle_events(_, _)
main_handle_events(groups, events) ==
    IF events = <<>> THEN groups
    ELSE main_handle_events(main_handle_event(groups, Head(events)), Tail(events))

-----------------------------------------------------------------------------
(* One transaction of group and output events, applied by either            *)
(* handle_events                                                            *)

MaxBatch == 2

\* the events of the transaction
OutputBatchEvents ==
    {OutputEnter(GroupHandle("ExtV0", g), o) : g \in GroupIds, o \in OutputIds}
    \cup {OutputLeave(GroupHandle("ExtV0", g), o) : g \in GroupIds, o \in OutputIds}
    \cup {WorkspaceGroupCreated(GroupHandle("ExtV0", 2)),
          WorkspaceGroupRemoved(GroupHandle("ExtV0", 1))}

OutputBatches == UNION {[1..n -> OutputBatchEvents] : n \in 1..MaxBatch}

\* what earlier transactions have built: group 1, with or without output 21
OutputSeeds ==
    {<<WorkspaceGroupCreated(GroupHandle("ExtV0", 1))>>,
     <<WorkspaceGroupCreated(GroupHandle("ExtV0", 1)),
       OutputEnter(GroupHandle("ExtV0", 1), 21)>>}

\* the function from group handle to the set of outputs recorded for it
OutputsIn(program, st) ==
    IF program = "main"
    THEN [g \in DOMAIN st |-> {st[g].outputs[i] : i \in 1..Len(st[g].outputs)}]
    ELSE [g \in {st.groups[i].handle : i \in 1..Len(st.groups)} |->
             UNION {st.groups[i].output : i \in {j \in 1..Len(st.groups) :
                                                    st.groups[j].handle = g}}]

Applied(st) ==
    /\ pc = "apply"
    /\ pc' = "applied"
    /\ workspace_state' = st
    /\ txn' = [before |-> Some(workspace_state), batch |-> args.batch]
    /\ UNCHANGED <<registry, protocol_version, args, wire, exit, last, delivered, stdout, compositor>>

\* Done with the batch queued: handle_events of workspace_manager.rs
Apply_workspace_manager ==
    /\ args.program = "workspace_manager"
    /\ Applied(handle_events(workspace_state, args.batch))

\* Done with the batch queued: handle_events of main.rs
Apply_main ==
    /\ args.program = "main"
    /\ Applied(main_handle_events(workspace_state, args.batch))

InitApply ==
    /\ pc = "apply"
    /\ registry = {}
    /\ protocol_version = None
    /\ args \in [program : {"workspace_manager", "main"}, batch : OutputBatches]
    /\ \E seed \in OutputSeeds :
          workspace_state =
              IF args.program = "main"
              THEN main_handle_events(<<>>, seed)
              ELSE handle_events(WorkspaceState_new("ExtV0"), seed)
    /\ wire = <<>>
    /\ exit = Running
    /\ last = "Done"
    /\ txn = [before |-> None, batch |-> <<>>]
    /\ delivered = 0
    /\ stdout = <<>>
    /\ compositor = None

NextApply ==
    \/ Apply_workspace_manager
    \/ Apply_main

SpecApply == InitApply /\ [][NextApply]_vars

\* the outputs recorded in front of the last event of the applied batch
OutputsBeforeLast ==
    LET front == SubSeq(txn.batch, 1, Len(txn.batch) - 1)
    IN  OutputsIn(args.program,
                  IF args.program = "main"
                  THEN main_handle_events(Unwrap(txn.before), front)
                  ELSE handle_events(Unwrap(txn.before), front))

LastEvent == txn.batch[Len(txn.batch)]

\* C25: output-leave(g, o) clears g's output when the output recorded for g
\* is o, and leaves it as it is otherwise.
C25_OutputLeaveClearsOnlyItsOutput ==
    (pc = "applied" /\ LastEvent.type = "OutputLeave"
        /\ LastEvent.group \in DOMAIN OutputsBeforeLast) =>
        LET g == LastEvent.group
            was == OutputsBeforeLast[g]
        IN  OutputsIn(args.program, workspace_state)[g] =
                IF was = {LastEvent.output} THEN {} ELSE was

\* handle_events of workspace_manager.rs has applied output-leave(1, 22) to
\* group 1 on output 21, which is still on 21
C25_Witness ==
    /\ pc = "applied"
    /\ args.program = "workspace_manager"
    /\ txn.batch = <<OutputLeave(GroupHandle("ExtV0", 1), 22)>>
    /\ Len(workspace_state.groups) = 1
    /\ workspace_state.groups[1].output = Some(21)

-----------------------------------------------------------------------------
(* workspace-enter-group and workspace-leave-group                          *)

\* st with the group of its i-th workspace cleared if that group is g, and
\* nothing else changed
GroupClearedIfEqual(st, i, g) ==
    [st EXCEPT !.workspaces[i].group = IF @ = Some(g.id) THEN None ELSE @]

\* C26: workspace-leave-group(w, g) clears the group of w's record when that
\* group is g and changes nothing otherwise: the transaction ends in the
\* state that the events behind the leave make of exactly that state.
C26_LeaveClearsOnlyItsGroup ==
    [][DoneStep =>
          \A k \in 1..Len(Batch) :
              (Batch[k].type = "WorkspaceLeave" /\ ~UnknownHandle(Before(k), Batch[k])) =>
                  LET st == Before(k)
                      i == find_workspace(st, Batch[k].workspace)
                      cleared == GroupClearedIfEqual(st, i, Batch[k].group)
                  IN  /\ workspace_state'.workspaces =
                            handle_events(cleared, Behind(k)).workspaces
                      /\ workspace_state'.groups =
                            handle_events(cleared, Behind(k)).groups]_vars

\* workspace 11 of group 1 has entered group 2 and then left group 1 in one
\* transaction: it is in group 2
C26_Witness ==
    /\ pc = "listen"
    /\ last = "Done"
    /\ txn.batch = <<WorkspaceEnter(WorkspaceHandle("ExtV1", 11), GroupHandle("ExtV1", 2)),
                     WorkspaceLeave(WorkspaceHandle("ExtV1", 11), GroupHandle("ExtV1", 1))>>
    /\ Len(txn.before.workspaces) = 1
    /\ txn.before.workspaces[1].group = Some(1)
    /\ workspace_state.workspaces[1].group = Some(2)

-----------------------------------------------------------------------------
(* workspace-created                                                        *)

\* the record of a workspace nothing is known of yet: no name, no
\* coordinates, no state, no capabilities (the record has no field for them:
\* "capabilities" is not in its domain), in group g if one is given
FreshWorkspace(g, w) ==
    [handle |-> w, name |-> None, coordinates |-> None, state |-> {},
     group |-> IF g = None THEN None ELSE Some(Unwrap(g).id)]

\* no event of the sequence puts a workspace into a group or removes one
NoEnterNoRemove(events) ==
    \A j \in 1..Len(events) :
        events[j].type \notin {"WorkspaceEnter", "WorkspaceRemoved"}

\* C27: workspace-created(g?, w) appends one record for w, with no name, no
\* coordinates, no state, no capabilities and the group g if there is one;
\* under ExtV1 the event never has a group, and the record it appends has
\* none at the end of a transaction in which no workspace-enter-group follows.
C27_CreatedAppendsFreshRecord ==
    [][DoneStep =>
          \A k \in 1..Len(Batch) :
              Batch[k].type = "WorkspaceCreated" =>
                  LET st == Before(k)
                      n == Len(st.workspaces) + 1
                      fresh == FreshWorkspace(Batch[k].group, Batch[k].workspace)
                      appended == [st EXCEPT !.workspaces = Append(@, fresh)]
                  IN  /\ "capabilities" \notin DOMAIN fresh
                      /\ handle_event(st, Batch[k]) = appended
                      /\ workspace_state'.workspaces =
                            handle_events(appended, Behind(k)).workspaces
                      /\ workspace_state'.groups =
                            handle_events(appended, Behind(k)).groups
                      /\ workspace_state.manager = "ExtV1" =>
                            /\ Batch[k].group = None
                            /\ NoEnterNoRemove(Behind(k)) =>
                                  /\ workspace_state'.workspaces[n].handle = Batch[k].workspace
                                  /\ workspace_state'.workspaces[n].group = None]_vars

\* an ExtV1 transaction that only creates workspace 12 has been applied: the
\* last record is 12's and it is in no group
C27_Witness ==
    /\ pc = "listen"
    /\ last = "Done"
    /\ workspace_state.manager = "ExtV1"
    /\ txn.batch = <<WorkspaceCreated(None, WorkspaceHandle("ExtV1", 12))>>
    /\ Len(workspace_state.workspaces) = Len(txn.before.workspaces) + 1
    /\ workspace_state.workspaces[Len(workspace_state.workspaces)] =
          FreshWorkspace(None, WorkspaceHandle("ExtV1", 12))

-----------------------------------------------------------------------------
(* workspace-state, workspace-name and workspace-coordinates                *)

FieldEventTypes == {"WorkspaceState", "WorkspaceName", "WorkspaceCoord"}

\* the field of the workspace record that the event writes
FieldOf(type) ==
    CASE type = "WorkspaceState" -> "state"
      [] type = "WorkspaceName" -> "name"
      [] type = "WorkspaceCoord" -> "coordinates"

\* the value the event writes there
ValueOf(event) ==
    CASE event.type = "WorkspaceState" -> event.state
      [] event.type = "WorkspaceName" -> Some(event.name)
      [] event.type = "WorkspaceCoord" -> Some(event.coordinates)

\* the position in the batch of the last event of the type for handle h,
\* 0 if there is none
LastWrite(batch, h, type) ==
    LET S == {j \in 1..Len(batch) : batch[j].type = type /\ batch[j].workspace = h}
    IN  IF S = {} THEN 0 ELSE CHOOSE j \in S : \A l \in S : l <= j

-----------------------------------------------------------------------------
(* group-capabilities and workspace-capabilities                            *)

\* the capabilities recorded for group g: WorkspaceState has the one field
\* group_cap, which holds them for every group
GroupCapsOf(st, g) == st.group_cap

\* the capabilities recorded for workspace w: the one field workspace_cap
WorkspaceCapsOf(st, w) == st.workspace_cap

GroupHandlesOf(st) == {st.groups[i].handle : i \in 1..Len(st.groups)}

WorkspaceHandlesOf(st) == {st.workspaces[i].handle : i \in 1..Len(st.workspaces)}

\* C29: a transaction of one group-capabilities event changes the
\* capabilities recorded for at most one group, the one it is for, and a
\* transaction of one workspace-capabilities event those of at most one
\* workspace; for every other group and workspace they are as before.
C29_CapabilitiesOfOthersUnchanged ==
    [][(DoneStep /\ Len(Batch) = 1) =>
          /\ Batch[1].type = "WorkspaceGroupCapabilities" =>
                Cardinality({g \in GroupHandlesOf(workspace_state) :
                                GroupCapsOf(workspace_state', g) #
                                    GroupCapsOf(workspace_state, g)}) <= 1
          /\ Batch[1].type = "WorkspaceCapabilities" =>
                Cardinality({w \in WorkspaceHandlesOf(workspace_state) :
                                WorkspaceCapsOf(workspace_state', w) #
                                    WorkspaceCapsOf(workspace_state, w)}) <= 1]_vars

\* with two groups known, a transaction of one group-capabilities event has
\* been applied and group_cap holds its capabilities
C29_Witness ==
    /\ pc = "listen"
    /\ last = "Done"
    /\ Len(txn.batch) = 1
    /\ txn.batch[1].type = "WorkspaceGroupCapabilities"
    /\ Cardinality(GroupHandlesOf(txn.before)) = 2
    /\ txn.before.group_cap = None
    /\ workspace_state.group_cap = Some(txn.batch[1].caps)

-----------------------------------------------------------------------------
(* The manager handlers of workspace_protocol_ext_v1.rs and                 *)
(* workspace_protocol_cosmic_v1.rs                                          *)

ext_v1_ExtWorkspaceManagerV1_event(st, event) ==
    CASE event.name = "WorkspaceGroup" ->
           push(st, WorkspaceGroupCreated(GroupHandle("ExtV1", event.workspace_group)))
      [] event.name = "Done" -> WorkspaceState_handle_events(st)
      [] event.name = "Finished" -> st      \* // todo handle event
      [] event.name = "Workspace" ->
           push(st, WorkspaceCreated(None, WorkspaceHandle("ExtV1", event.workspace)))

cosmic_v1_ZcosmicWorkspaceManagerV1_event(st, event) ==
    CASE event.name = "WorkspaceGroup" ->
           push(st, WorkspaceGroupCreated(GroupHandle("CosmicV1", event.workspace_group)))
      [] event.name = "Done" -> WorkspaceState_handle_events(st)
      [] event.name = "Finished" -> push(st, ManagerFinished)

Dispatch_ext_v1_ExtWorkspaceManagerV1 ==
    /\ workspace_state.manager = "ExtV1"
    /\ \E event \in ManagerEvents("ExtV1") :
          Deliver(event, ext_v1_ExtWorkspaceManagerV1_event(workspace_state, event))

Dispatch_cosmic_v1_ZcosmicWorkspaceManagerV1 ==
    /\ workspace_state.manager = "CosmicV1"
    /\ \E event \in ManagerEvents("CosmicV1") :
          Deliver(event, cosmic_v1_ZcosmicWorkspaceManagerV1_event(workspace_state, event))

\* the listen loop with the three manager handlers of workspace_protocol_*.rs
NextManagers ==
    \/ Dispatch_ext_v0_ZextWorkspaceManagerV1
    \/ Dispatch_ext_v1_ExtWorkspaceManagerV1
    \/ Dispatch_cosmic_v1_ZcosmicWorkspaceManagerV1

SpecManagers == Init /\ [][NextManagers]_vars

\* C30: a Finished from the manager, in each of the three dialects, appends
\* one manager-finished event to the queue; what was queued stays queued and
\* nothing is applied to the groups and workspaces.
C30_FinishedQueuesOneEvent ==
    [][last' = "Finished" =>
          /\ workspace_state'.events = Append(workspace_state.events, ManagerFinished)
          /\ workspace_state'.groups = workspace_state.groups
          /\ workspace_state'.workspaces = workspace_state.workspaces]_vars

\* under ExtV0 a Finished has arrived behind a queued event: both are queued
C30_Witness ==
    /\ workspace_state.manager = "ExtV0"
    /\ last = "Finished"
    /\ Len(workspace_state.events) = 2
    /\ workspace_state.events[1].type = "WorkspaceGroupCreated"
    /\ workspace_state.events[2] = ManagerFinished

-----------------------------------------------------------------------------
(* A request after the manager has sent Finished                            *)

FinishedRaw == M([name |-> "Finished"])

\* the first roundtrip of exec, in which the server announces its workspaces
\* and then sends Finished
Roundtrip_Finished ==
    /\ pc = "roundtrip"
    /\ wire' = Append(wire, Sync)
    /\ \E server \in Servers(workspace_state.manager) :
          LET r == dispatch_pending(workspace_state, server \o <<FinishedRaw>>)
          IN  IF IsPanic(r)
              THEN /\ pc' = "panicked"
                   /\ exit' = Aborted("panic in an event handler")
                   /\ UNCHANGED workspace_state
              ELSE /\ pc' = "command"
                   /\ workspace_state' = r
                   /\ UNCHANGED exit
    /\ last' = "Finished"
    /\ UNCHANGED <<registry, protocol_version, args, txn, delivered, stdout, compositor>>

\* setup() has bound a manager; the command is one that sends requests
InitFinished ==
    /\ pc = "roundtrip"
    /\ \E dialect \in Dialects :
          /\ registry = {dialect}
          /\ workspace_state = WorkspaceState_new(dialect)
    /\ protocol_version = None
    /\ args \in Commandlines \ {[command |-> "Listen"]}
    /\ wire = <<>>
    /\ exit = Running
    /\ last = "none"
    /\ txn = [before |-> None, batch |-> <<>>]
    /\ delivered = 0
    /\ stdout = <<>>
    /\ compositor = None

NextFinished ==
    \/ Roundtrip_Finished
    \/ Exec_CreateWorkspace
    \/ Exec_Activate
    \/ Exec_Deactivate
    \/ Exec_Remove
    \/ Exec_Assign
    \/ Roundtrip2

SpecFinished == InitFinished /\ [][NextFinished]_vars

\* C31: once Finished has been received, every request is rejected: exec
\* does not return Ok, and nothing but the syncs of the roundtrips is sent.
C31_NoRequestAfterFinished ==
    last = "Finished" =>
        /\ \A i \in 1..Len(wire) : wire[i].request = "sync"
        /\ pc = "exited" => exit.code # "Ok"

\* Finished has been received and an activate request is on the wire,
\* followed by a commit
C31_Witness ==
    /\ last = "Finished"
    /\ Len(wire) >= 3
    /\ wire[2].request = "activate"
    /\ wire[3].request = "commit"

-----------------------------------------------------------------------------
(* The listen loop with the handlers of workspace_protocol_ext_v0.rs and    *)
(* workspace_protocol_cosmic_v1.rs                                          *)

\* a group handler that takes the server's Workspace event for a move of the
\* workspace into the group
cosmic_v1_ZcosmicWorkspaceGroupHandleV1_event_enter(st, handle, event) ==
    IF event.name = "Workspace"
    THEN push(st, WorkspaceEnter(WorkspaceHandle("CosmicV1", event.workspace),
                                 GroupHandle("CosmicV1", handle)))
    ELSE st

ext_v0_ZextWorkspaceGroupHandleV1_event(st, handle, event) ==
    CASE event.name = "OutputEnter" ->
           push(st, OutputEnter(GroupHandle("ExtV0", handle), event.output))
      [] event.name = "OutputLeave" ->
           push(st, OutputLeave(GroupHandle("ExtV0", handle), event.output))
      [] event.name = "Remove" ->
           push(st, WorkspaceGroupRemoved(GroupHandle("ExtV0", handle)))
      [] event.name = "Workspace" ->
           push(st, WorkspaceCreated(Some(GroupHandle("ExtV0", handle)),
                                     WorkspaceHandle("ExtV0", event.workspace)))

cosmic_v1_ZcosmicWorkspaceGroupHandleV1_event(st, handle, event) ==
    CASE event.name = "OutputEnter" ->
           push(st, OutputEnter(GroupHandle("CosmicV1", handle), event.output))
      [] event.name = "OutputLeave" ->
           push(st, OutputLeave(GroupHandle("CosmicV1", handle), event.output))
      [] event.name = "Remove" ->
           push(st, WorkspaceGroupRemoved(GroupHandle("CosmicV1", handle)))
      [] event.name = "Capabilities" ->
           \* caps.insert(GroupCapabilities::from_bits_retain(bits as u32))
           push(st, WorkspaceGroupCapabilitiesOf(GroupHandle("CosmicV1", handle),
                  UNION {BitsOfValue(event.capabilities[i]) :
                            i \in 1..Len(event.capabilities)}))
      [] event.name = "Workspace" ->
           push(st, WorkspaceCreated(Some(GroupHandle("CosmicV1", handle)),
                                     WorkspaceHandle("CosmicV1", event.workspace)))

Dispatch_ext_v0_ZextWorkspaceGroupHandleV1 ==
    /\ workspace_state.manager = "ExtV0"
    /\ \E handle \in GroupIds, event \in GroupEvents("ExtV0") :
          Deliver(event, ext_v0_ZextWorkspaceGroupHandleV1_event(workspace_state,
                                                                 handle, event))

Dispatch_cosmic_v1_ZcosmicWorkspaceGroupHandleV1 ==
    /\ workspace_state.manager = "CosmicV1"
    /\ \E handle \in GroupIds, event \in GroupEvents("CosmicV1") :
          Deliver(event, cosmic_v1_ZcosmicWorkspaceGroupHandleV1_event(workspace_state,
                                                                       handle, event))

Dispatch_ext_v0_ZextWorkspaceHandleV1 ==
    /\ workspace_state.manager = "ExtV0"
    /\ \E handle \in WorkspaceIds, event \in WorkspaceEvents("ExtV0") :
       \E target_endian \in TargetEndians :
          Deliver(event, ext_v0_ZextWorkspaceHandleV1_event(workspace_state, handle,
                                                            event, target_endian))

Dispatch_cosmic_v1_ZcosmicWorkspaceHandleV1 ==
    /\ workspace_state.manager = "CosmicV1"
    /\ \E handle \in WorkspaceIds, event \in WorkspaceEvents("CosmicV1") :
       \E target_endian \in TargetEndians :
          Deliver(event, cosmic_v1_ZcosmicWorkspaceHandleV1_event(workspace_state, handle,
                                                                  event, target_endian))

\* the listen loop after the first roundtrip, bound to ExtV0 or to Cosmic
InitProtocol == Init /\ workspace_state.manager \in {"ExtV0", "CosmicV1"}

NextProtocol ==
    \/ Dispatch_ext_v0_ZextWorkspaceManagerV1
    \/ Dispatch_ext_v0_ZextWorkspaceGroupHandleV1
    \/ Dispatch_ext_v0_ZextWorkspaceHandleV1
    \/ Dispatch_cosmic_v1_ZcosmicWorkspaceManagerV1
    \/ Dispatch_cosmic_v1_ZcosmicWorkspaceGroupHandleV1
    \/ Dispatch_cosmic_v1_ZcosmicWorkspaceHandleV1

SpecProtocol == InitProtocol /\ [][NextProtocol]_vars

\* the group fields of the records of workspace w, in the order of the list
GroupsOf(st, w) ==
    LET mine == SelectSeq(st.workspaces, LAMBDA ws : ws.handle = w)
    IN  [k \in 1..Len(mine) |-> mine[k].group]

IsPrefix(s, t) == Len(s) <= Len(t) /\ SubSeq(t, 1, Len(s)) = s

\* the pending queue holds a removal of workspace w
RemovalQueued(st, w) ==
    \E k \in 1..Len(st.events) :
        st.events[k].type = "WorkspaceRemoved" /\ st.events[k].workspace = w

\* C32: under ExtV0 and Cosmic no step changes the group of a workspace
\* record: unless the step is the Done that removes the workspace, the
\* records of a handle keep their groups (new records may be appended).
C32_GroupFixedAtCreation ==
    [][\A w \in {WorkspaceHandle(workspace_state.manager, i) : i \in WorkspaceIds} :
          ~(last' = "Done" /\ RemovalQueued(workspace_state, w)) =>
              IsPrefix(GroupsOf(workspace_state, w), GroupsOf(workspace_state', w))]_vars

\* workspace 11 of group 1 is still in group 1 after a transaction in which
\* the group was removed and the workspace renamed
C32_Witness ==
    /\ pc = "listen"
    /\ last = "Done"
    /\ Len(txn.batch) = 2
    /\ txn.batch[1].type = "WorkspaceGroupRemoved"
    /\ txn.batch[1].group.id = 1
    /\ txn.batch[2].type = "WorkspaceName"
    /\ Len(workspace_state.workspaces) >= 1
    /\ workspace_state.workspaces[1].handle.id = 11
    /\ workspace_state.workspaces[1].group = Some(1)
    /\ workspace_state.workspaces[1].name = Some(txn.batch[2].name)
    /\ workspace_state.groups = SelectSeq(txn.before.groups, LAMBDA g : g.handle.id # 1)

-----------------------------------------------------------------------------
(* A Cosmic compositor that reports every change of its graph, and at times *)
(* sends a state buffer of the wrong length or an event for a handle it     *)
(* does not have; the client runs the handlers of                           *)
(* workspace_protocol_cosmic_v1.rs                                          *)

NamedStates == {{}, {"Active"}, {"Active", "Hidden"}, {"Urgent"}}

\* the word of a set of states and its four bytes in the byte order of the
\* machine that compositor and client share
StateWord(states) ==
    (IF "Active" \in states THEN 1 ELSE 0) + (IF "Hidden" \in states THEN 2 ELSE 0)
    + (IF "Urgent" \in states THEN 4 ELSE 0)

NativeBytes(word, target_endian) ==
    IF target_endian = "little" THEN <<word, 0, 0, 0>> ELSE <<0, 0, 0, word>>

\* state buffers that are not four bytes long
MalformedBuffers == {<<>>, <<1, 0, 0>>, <<5, 0, 0, 0, 0>>}

NewServerWorkspace(g) == [group |-> g, name |-> None, state |-> {}, coordinates |-> None]

\* the compositor's graph with workspace w set to rec
WithWorkspace(graph, w, rec) ==
    [graph EXCEPT !.workspaces =
        [x \in DOMAIN graph.workspaces \cup {w} |->
            IF x = w THEN rec ELSE graph.workspaces[x]]]

\* the compositor makes its graph `graph` and sends `event`, which the
\* handler takes to r
Sends(event, r, graph) == Handled(event, r) /\ compositor' = graph

Server_WorkspaceGroup ==
    \E g \in GroupIds \ compositor.groups :
        LET event == [name |-> "WorkspaceGroup", workspace_group |-> g]
        IN  Sends(event, cosmic_v1_ZcosmicWorkspaceManagerV1_event(workspace_state, event),
                  [compositor EXCEPT !.groups = @ \cup {g}])

\* a group is removed once its workspaces are gone
Server_GroupRemove ==
    \E g \in compositor.groups :
        /\ \A w \in DOMAIN compositor.workspaces : compositor.workspaces[w].group # g
        /\ Sends([name |-> "Remove"],
                 cosmic_v1_ZcosmicWorkspaceGroupHandleV1_event(workspace_state, g,
                                                               [name |-> "Remove"]),
                 [compositor EXCEPT !.groups = @ \ {g}])

Server_Workspace ==
    \E g \in compositor.groups, w \in WorkspaceIds \ DOMAIN compositor.workspaces :
        LET event == [name |-> "Workspace", workspace |-> w]
        IN  Sends(event,
                  cosmic_v1_ZcosmicWorkspaceGroupHandleV1_event(workspace_state, g, event),
                  WithWorkspace(compositor, w, NewServerWorkspace(g)))

Server_WorkspaceRemove ==
    \E w \in DOMAIN compositor.workspaces :
        Sends([name |-> "Remove"],
              cosmic_v1_ZcosmicWorkspaceHandleV1_event(workspace_state, w,
                  [name |-> "Remove"], args.target_endian),
              [compositor EXCEPT
                  !.workspaces = [x \in DOMAIN @ \ {w} |-> @[x]],
                  !.stale = @ \ {w}])

Server_Name ==
    \E w \in DOMAIN compositor.workspaces, n \in Names :
        LET event == [name |-> "Name", name_arg |-> n]
        IN  Sends(event,
                  cosmic_v1_ZcosmicWorkspaceHandleV1_event(workspace_state, w, event,
                                                           args.target_endian),
                  [compositor EXCEPT !.workspaces[w].name = Some(n)])

Server_Coordinates ==
    \E w \in DOMAIN compositor.workspaces, c \in CoordValues :
        LET event == [name |-> "Coordinates", coordinates |-> c]
        IN  Sends(event,
                  cosmic_v1_ZcosmicWorkspaceHandleV1_event(workspace_state, w, event,
                                                           args.target_endian),
                  [compositor EXCEPT !.workspaces[w].coordinates = Some(c)])

\* the state of w changes (or is sent again) in a well-formed buffer
Server_State ==
    \E w \in DOMAIN compositor.workspaces, s \in NamedStates :
        LET event == [name |-> "State",
                      state |-> NativeBytes(StateWord(s), args.target_endian)]
        IN  Sends(event,
                  cosmic_v1_ZcosmicWorkspaceHandleV1_event(workspace_state, w, event,
                                                           args.target_endian),
                  [compositor EXCEPT !.workspaces[w].state = s, !.stale = @ \ {w}])

\* the state of w changes and goes out in a buffer of the wrong length: the
\* client's copy is stale until the state is sent again
Server_State_malformed ==
    \E w \in DOMAIN compositor.workspaces, s \in NamedStates, b \in MalformedBuffers :
        LET event == [name |-> "State", state |-> b]
        IN  Sends(event,
                  cosmic_v1_ZcosmicWorkspaceHandleV1_event(workspace_state, w, event,
                                                           args.target_endian),
                  [compositor EXCEPT !.workspaces[w].state = s, !.stale = @ \cup {w}])

\* an event for a workspace or a group the compositor does not have
Server_dangling ==
    \/ \E w \in WorkspaceIds \ DOMAIN compositor.workspaces :
       \E event \in {[name |-> "Name", name_arg |-> "b"],
                     [name |-> "Coordinates", coordinates |-> <<0>>],
                     [name |-> "State",
                      state |-> NativeBytes(1, args.target_endian)]} :
          Sends(event,
                cosmic_v1_ZcosmicWorkspaceHandleV1_event(workspace_state, w, event,
                                                         args.target_endian),
                compositor)
    \/ \E g \in GroupIds \ compositor.groups :
          LET event == [name |-> "OutputEnter", output |-> 21]
          IN  Sends(event,
                    cosmic_v1_ZcosmicWorkspaceGroupHandleV1_event(workspace_state, g, event),
                    compositor)

Server_Done ==
    Sends([name |-> "Done"],
          cosmic_v1_ZcosmicWorkspaceManagerV1_event(workspace_state, [name |-> "Done"]),
          compositor)

\* the graphs the session starts from, with the events that announce them
ServerSeeds ==
    {[graph |-> [groups |-> {}, workspaces |-> <<>>, stale |-> {}],
      events |-> <<>>],
     [graph |-> [groups |-> {1},
                 workspaces |-> (11 :> [group |-> 1, name |-> Some("a"), state |-> {},
                                        coordinates |-> None]),
                 stale |-> {}],
      events |-> <<WorkspaceGroupCreated(GroupHandle("CosmicV1", 1)),
                   WorkspaceCreated(Some(GroupHandle("CosmicV1", 1)),
                                    WorkspaceHandle("CosmicV1", 11)),
                   WorkspaceName(WorkspaceHandle("CosmicV1", 11), "a")>>]}

InitServer ==
    /\ pc = "listen"
    /\ registry = {}
    /\ protocol_version = None
    /\ args \in [target_endian : TargetEndians]
    /\ \E seed \in ServerSeeds :
          /\ compositor = seed.graph
          /\ workspace_state = handle_events(WorkspaceState_new("CosmicV1"), seed.events)
    /\ wire = <<>>
    /\ exit = Running
    /\ last = "Done"
    /\ txn = [before |-> workspace_state, batch |-> <<>>]
    /\ delivered = 0
    /\ stdout = <<>>

NextServer ==
    \/ Server_WorkspaceGroup
    \/ Server_GroupRemove
    \/ Server_Workspace
    \/ Server_WorkspaceRemove
    \/ Server_Name
    \/ Server_Coordinates
    \/ Server_State
    \/ Server_State_malformed
    \/ Server_dangling
    \/ Server_Done

SpecServer == InitServer /\ [][NextServer]_vars

\* the client's groups and workspaces are the compositor's: the same
\* handles, one record each, with the same group, name, state, coordinates
ClientEqualsServer ==
    LET st == workspace_state
        gids == {st.groups[i].handle.id : i \in 1..Len(st.groups)}
        wids == {st.workspaces[i].handle.id : i \in 1..Len(st.workspaces)}
    IN  /\ gids = compositor.groups
        /\ Len(st.groups) = Cardinality(gids)
        /\ wids = DOMAIN compositor.workspaces
        /\ Len(st.workspaces) = Cardinality(wids)
        /\ \A i \in 1..Len(st.workspaces) :
              LET ws == st.workspaces[i]
                  its == compositor.workspaces[ws.handle.id]
              IN  /\ ws.group = Some(its.group)
                  /\ ws.name = its.name
                  /\ ws.state = its.state
                  /\ ws.coordinates = its.coordinates

\* C33: at a Done boundary at which every state that went out malformed has
\* been sent again, the client's groups, workspaces, membership, names,
\* states and coordinates are the compositor's, whatever was dropped before.
C33_ConsistentOnceResent ==
    (pc = "listen" /\ last = "Done" /\ compositor.stale = {}) => ClientEqualsServer

\* a Done after a malformed state for workspace 11 left the client behind;
\* the state was sent again and the next Done has made the two equal
C33_Witness ==
    /\ pc = "listen"
    /\ last = "Done"
    /\ compositor.stale = {}
    /\ 11 \in DOMAIN compositor.workspaces
    /\ compositor.workspaces[11].state = {"Active", "Hidden"}
    /\ Len(txn.batch) = 1
    /\ txn.batch[1].type = "WorkspaceState"
    /\ txn.before.workspaces[1].state = {}
    /\ delivered = 2
    /\ ClientEqualsServer

-----------------------------------------------------------------------------
(* The renderer: what list prints, against the snapshot it was given *)

\* how many workspaces the compositor leaves without group
MaxUnassigned == 2

\* group 1 has no output; workspace 11 is in it
ServerNoOutput(dialect) ==
    <<WorkspaceGroup(1), WorkspaceGroup(2),
      G(2, [name |-> "OutputEnter", output |-> 22])>>
    \o AnnounceWorkspace(dialect, 1, 11)
    \o AnnounceWorkspace(dialect, 2, 12)
    \o <<W(11, [name |-> "Name", name_arg |-> "a"]), DoneRaw>>

\* the lower workspace id is in the higher group
ServerInterleaved(dialect) ==
    <<WorkspaceGroup(1), WorkspaceGroup(2),
      G(1, [name |-> "OutputEnter", output |-> 21]),
      G(2, [name |-> "OutputEnter", output |-> 22])>>
    \o AnnounceWorkspace(dialect, 1, 12)
    \o AnnounceWorkspace(dialect, 2, 11)
    \o <<W(11, [name |-> "Name", name_arg |-> "a"]), DoneRaw>>

\* group 1 is removed while workspace 11 is still in it
ServerGroupRemoved(dialect) ==
    ServerTwoGroups(dialect)
    \o <<G(1, [name |-> IF dialect = "ExtV1" THEN "Removed" ELSE "Remove"]), DoneRaw>>

\* ext-workspace-v1 announces workspaces at the manager: `n` of them are
\* never put into a group
ServerUnassigned(n) ==
    <<WorkspaceGroup(1), G(1, [name |-> "OutputEnter", output |-> 21])>>
    \o AnnounceWorkspace("ExtV1", 1, 11)
    \o [k \in 1..n |-> M([name |-> "Workspace", workspace |-> 11 + k])]
    \o <<W(11, [name |-> "Name", name_arg |-> "a"]), DoneRaw>>

ListServers(dialect) ==
    {ServerEmpty(dialect), ServerOneGroup(dialect), ServerTwoGroups(dialect),
     ServerNoOutput(dialect), ServerInterleaved(dialect), ServerGroupRemoved(dialect)}
    \cup (IF dialect = "ExtV1" THEN {ServerUnassigned(n) : n \in 1..MaxUnassigned} ELSE {})

\* the roundtrip of list; what the compositor sent is kept in `compositor`
Roundtrip_List ==
    /\ pc = "roundtrip"
    /\ wire' = Append(wire, Sync)
    /\ \E server \in ListServers(workspace_state.manager) :
          LET r == dispatch_pending(workspace_state, server)
          IN  /\ compositor' = server
              /\ IF IsPanic(r)
                 THEN /\ pc' = "panicked"
                      /\ exit' = Aborted("panic in an event handler")
                      /\ UNCHANGED workspace_state
                 ELSE /\ pc' = "command"
                      /\ workspace_state' = r
                      /\ UNCHANGED exit
    /\ UNCHANGED <<registry, protocol_version, args, last, txn, delivered, stdout>>

InitList ==
    /\ pc = "roundtrip"
    /\ \E dialect \in Dialects :
          /\ registry = {dialect}
          /\ workspace_state = WorkspaceState_new(dialect)
    /\ protocol_version = None
    /\ args \in ListCommandlines
    /\ wire = <<>>
    /\ exit = Running
    /\ last = "none"
    /\ txn = [before |-> None, batch |-> <<>>]
    /\ delivered = 0
    /\ stdout = <<>>
    /\ compositor = None

NextList ==
    \/ Roundtrip_List
    \/ Exec_List

SpecList == InitList /\ [][NextList]_vars

\* the step is list returning Ok after it has printed
ListPrints == pc = "command" /\ args.command = "List" /\ pc' = "exited" /\ exit'.code = "Ok"

\* what that step printed
Printed == stdout'[Len(stdout')]

\* the lines of kind `kind` of a text
LinesOf(text, kind) == SelectSeq(text, LAMBDA l : l.line = kind)

\* the workspace handles of the snapshot
HandlesIn(st) == {st.workspaces[i].handle.id : i \in 1..Len(st.workspaces)}

\* how many records of the snapshot are workspaces with handle w and group g
CountIn(st, w, g) ==
    Cardinality({i \in 1..Len(st.workspaces) :
                    st.workspaces[i].handle.id = w /\ st.workspaces[i].group = g})

C35_NoOutputGroupHasNoWorkspaceLines ==
    [][(ListPrints /\ ~args.args.json) =>
        LET text == Printed.text
        IN  \A k \in 1..Len(text) :
               (text[k].line = "group" /\ text[k].group.output = None) =>
                   (k = Len(text) \/ text[k + 1].line # "workspace")]_vars

\* list has printed, in text mode, a snapshot in which group 1 has no output
\* and workspace 11 is in group 1
C35_Witness ==
    /\ args.command = "List"
    /\ pc = "exited"
    /\ exit.code = "Ok"
    /\ ~args.args.json
    /\ Len(stdout) = 1
    /\ Len(workspace_state.groups) = 2
    /\ workspace_state.groups[1].output = None
    /\ \E i \in 1..Len(workspace_state.workspaces) :
          /\ workspace_state.workspaces[i].handle.id = 11
          /\ workspace_state.workspaces[i].group = Some(workspace_state.groups[1].handle.id)

\* the snapshot list printed from, sorted as print_data sorts it
SortedSnapshot == [workspace_state EXCEPT !.workspaces = SortedByProtocolId(@),
                                    !.groups = SortedByProtocolId(@)]

\* C36: in text mode without filter every workspace without group has one
\* line, and these lines are the end of the text, behind the marker of the
\* unassigned section, however many such workspaces there are.
C36_UnassignedListedOnce ==
    [][(ListPrints /\ ~args.args.json /\ args.args.output = None) =>
        LET text == Printed.text
            unassigned == SelectSeq(SortedSnapshot.workspaces, LAMBDA ws : ws.group = None)
            n == Len(unassigned)
        IN  /\ \A j \in 1..n :
                  /\ text[Len(text) - n + j].line = "workspace"
                  /\ text[Len(text) - n + j].workspace = format_workspace(unassigned[j])
            /\ n > 0 => text[Len(text) - n].line = "unassigned workspaces"
            /\ n = 0 => LinesOf(text, "unassigned workspaces") = <<>>
            /\ \A k \in 1..(Len(text) - n) :
                  text[k].line = "workspace" =>
                      \A j \in 1..n : text[k].workspace.handle # unassigned[j].handle.id]_vars

\* list has printed, in text mode, a snapshot with two workspaces without group
C36_Witness ==
    /\ args.command = "List"
    /\ pc = "exited"
    /\ exit.code = "Ok"
    /\ ~args.args.json
    /\ args.args.output = None
    /\ Len(stdout) = 1
    /\ Cardinality({i \in 1..Len(workspace_state.workspaces) :
                       workspace_state.workspaces[i].group = None}) = 2

-----------------------------------------------------------------------------
\* C37: every raw event is handled and the handler returns: the client goes
\* on listening, and an event other than Done has left the pending queue as
\* it was or one event longer.
C37_EveryEventReturns ==
    [][pc = "listen" =>
        /\ pc' = "listen"
        /\ last' # "Done" =>
              Len(workspace_state'.events) - Len(workspace_state.events) \in {0, 1}]_vars

\* the Cosmic group handler was handed a capabilities event
C37_Witness ==
    /\ workspace_state.manager = "CosmicV1"
    /\ last = "Capabilities"
    /\ pc = "panicked"
    /\ delivered = 1

-----------------------------------------------------------------------------
\* in how many places of the JSON the record ws stands in an object whose
\* group handle is g
PlacesIn(objects, ws, g) ==
    Cardinality({<<k, j>> \in (1..Len(objects)) \X (1..Len(SortedSnapshot.workspaces)) :
                    /\ objects[k].group_handle = g
                    /\ j <= Len(objects[k].workspaces)
                    /\ objects[k].workspaces[j] = ws})

\* C38: in JSON without filter every workspace of the snapshot stands in one
\* object: that of its group if the snapshot has that group, the trailing
\* object with null output and null group handle if it has not.
C38_EveryWorkspaceInOneObject ==
    [][(ListPrints /\ args.args.json /\ args.args.output = None) =>
        LET st == SortedSnapshot
            objects == Printed.json
            present(g) == \E i \in 1..Len(st.groups) : Some(st.groups[i].handle.id) = g
        IN  \A i \in 1..Len(st.workspaces) :
               LET ws == st.workspaces[i]
                   home == IF present(ws.group) THEN ws.group ELSE None
               IN  /\ PlacesIn(objects, ws, home) = 1
                   /\ \A g \in {None} \cup {Some(id) : id \in GroupIds} :
                         g # home => PlacesIn(objects, ws, g) = 0]_vars

\* list has printed, as JSON, a snapshot in which workspace 11 is still in
\* group 1, which has been removed
C38_Witness ==
    /\ args.command = "List"
    /\ pc = "exited"
    /\ exit.code = "Ok"
    /\ args.args.json
    /\ args.args.output = None
    /\ Len(stdout) = 1
    /\ Len(workspace_state.groups) = 1
    /\ workspace_state.groups[1].handle.id = 2
    /\ workspace_state.workspaces[1].handle.id = 11
    /\ workspace_state.workspaces[1].group = Some(1)

-----------------------------------------------------------------------------
\* C39: in text mode without filter, the index printed in front of a
\* workspace selects that workspace when given as --index without an output.
C39_PrintedIndexSelects ==
    [][(ListPrints /\ ~args.args.json /\ args.args.output = None) =>
        LET workspaces == LinesOf(Printed.text, "workspace")
        IN  \A k \in 1..Len(workspaces) :
               LET found == workspace_from_selection(workspace_state,
                                [NoWorkspaceSelector EXCEPT !.index = Some(workspaces[k].idx)],
                                None)
               IN  /\ IsOk(found)
                   /\ found.ok.handle.id = workspaces[k].workspace.handle]_vars

\* list has printed, in text mode, a snapshot in which workspace 12 is in
\* group 1 and workspace 11 in group 2
C39_Witness ==
    /\ args.command = "List"
    /\ pc = "exited"
    /\ exit.code = "Ok"
    /\ ~args.args.json
    /\ args.args.output = None
    /\ Len(stdout) = 1
    /\ Len(workspace_state.workspaces) = 2
    /\ workspace_state.workspaces[1].handle.id = 11
    /\ workspace_state.workspaces[1].group = Some(2)
    /\ workspace_state.workspaces[2].group = Some(1)

-----------------------------------------------------------------------------
(* Selectors whose protocol id does not fit a u32 *)

WideWorkspaceSelectors ==
    {[NoWorkspaceSelector EXCEPT !.protocol_id = Some(i)] :
        i \in {11, 14, U32_RANGE + 11, U32_RANGE + 14}}
    \cup {[NoWorkspaceSelector EXCEPT !.index = Some(0)]}

WideOutputSelectors ==
    {[output_name |-> None, output_protocol_id |-> Some(i)] :
        i \in {21, 29, U32_RANGE + 21, U32_RANGE + 29}}

InitSelectWide ==
    /\ pc = "select"
    /\ registry = {}
    /\ protocol_version = None
    /\ \E dialect \in Dialects : \E server \in SelectServers(dialect) :
          workspace_state = dispatch_pending(WorkspaceState_new(dialect), server)
    /\ args \in [workspace : WideWorkspaceSelectors,
                 output : {None} \cup {Some(o) : o \in WideOutputSelectors}]
    /\ wire = <<>>
    /\ exit = Running
    /\ last = "Done"
    /\ txn = [before |-> None, batch |-> <<>>]
    /\ delivered = 0
    /\ stdout = <<>>
    /\ compositor = None

NextSelectWide == Select

SpecSelectWide == InitSelectWide /\ [][NextSelectWide]_vars

\* C40: a protocol-id selector matches a record only if the record's id is
\* the selector's number: the workspace a workspace selector p yields has id
\* p, and the workspace yielded under an output selector p is in a group
\* whose output has id p.  A number of 2^32 or more yields nothing.
C40_ProtocolIdMatchesAsInteger ==
    (Selected /\ exit.code = "Ok") =>
        /\ args.workspace.protocol_id # None =>
              exit.value.handle.id = Unwrap(args.workspace.protocol_id)
        /\ args.output # None =>
              \E j \in 1..Len(workspace_state.groups) :
                  /\ Some(workspace_state.groups[j].handle.id) = exit.value.group
                  /\ workspace_state.groups[j].output
                        = Unwrap(args.output).output_protocol_id

\* the workspace selector 2^32 + 11 has been resolved against a state that
\* holds workspace 11
C40_Witness ==
    /\ Selected
    /\ args.output = None
    /\ args.workspace.protocol_id = Some(U32_RANGE + 11)
    /\ \E i \in Positions : Workspaces[i].handle.id = 11

====
